---- MODULE Spec2Model ----
(***************************************************************************)
(* Model of semantic2sql: the SemanticSQLGenerator contract (pre, post,    *)
(* dialect validation, forward) of src/semantic2sql/contracts.py and the   *)
(* data models of src/semantic2sql/models.py.                              *)
(*                                                                         *)
(* SQL texts, queries and oracle answers are sequences of one-character    *)
(* strings, so that strip(), upper(), count() and the substring test `in`  *)
(* are computed as Python computes them.                                   *)
(***************************************************************************)
EXTENDS Integers, Sequences, FiniteSets, TLC

VARIABLES
    v_sql,          \* validator harness: the SQL text handed to the validator
    v_dialect,      \* validator harness: the dialect it is validated for
    v_op,           \* validator harness: "none" | "post" | "validate_dialect_syntax"
    v_result,       \* validator harness: the boolean the validator returned
    v_deep,         \* validator harness: the deep check's outcome, "not_called" if skipped
    current_dialect,      \* SemanticSQLGenerator.current_dialect
    current_query,        \* SemanticSQLGenerator._current_query (Unset before the first forward)
    contract_result,      \* the decorator's contract_result (None or an SQLOutput)
    contract_successful,  \* the decorator's contract_successful
    pc,             \* per invocation: its position
    req,            \* per invocation: its QueryInput
    cand,           \* per invocation: the candidate the generation oracle returned
    tries,          \* per invocation: generation attempts made so far
    ret,            \* per invocation: what the invocation returned to its caller
    hist,           \* per invocation: what it observed (oracle calls, dialects used)
    store,          \* the database file: its tables, in sqlite_master order
    connection,     \* SQLInterface.connection (0 for None)
    open_conns,     \* the sqlite3 connections that are open
    conn_count,     \* the number of connections opened so far
    d_pc,           \* the with-scope on the handle: "outside" | "inside" | "raising"
    d_exc,          \* the exception in flight, or the one the caller received last
    d_scope,        \* how the last scope was left, and with which exception
    d_last,         \* the last method call on the handle and its outcome
    d_rep,          \* 1 when the last call repeated the description before it, else 0
    s_pc,           \* SQLGeneratorService: "idle" | "generating" | "returned"
    s_req,          \* SQLGeneratorService: the entry point called and its arguments
    s_delegate,     \* SQLGeneratorService: the calls it made on its generator
    s_ret,          \* SQLGeneratorService: the string it returned
    a_pc,           \* /query-db handler: its position
    a_req,          \* /query-db handler: the DatabaseQueryRequest
    a_resp,         \* /query-db handler: the response it returned
    a_obs,          \* /query-db handler: generators built, executions made, SQL executed
    a_db            \* databases[db_id]: the entry /upload-db stored

vars == <<v_sql, v_dialect, v_op, v_result, v_deep, current_dialect, current_query,
          contract_result, contract_successful, pc, req, cand, tries, ret, hist,
          store, connection, open_conns, conn_count, d_pc, d_exc, d_scope, d_last, d_rep,
          s_pc, s_req, s_delegate, s_ret, a_pc, a_req, a_resp, a_obs, a_db>>

v_vars == <<v_sql, v_dialect, v_op, v_result, v_deep>>
g_vars == <<current_dialect, current_query, contract_result, contract_successful,
            pc, req, cand, tries, ret, hist>>
d_vars == <<store, connection, open_conns, conn_count, d_pc, d_exc, d_scope, d_last, d_rep>>
s_vars == <<s_pc, s_req, s_delegate, s_ret>>
a_vars == <<a_pc, a_req, a_resp, a_obs, a_db>>

-----------------------------------------------------------------------------
(* Characters and Python's str operations *)

Lower == <<"a","b","c","d","e","f","g","h","i","j","k","l","m",
           "n","o","p","q","r","s","t","u","v","w","x","y","z">>
Caps  == <<"A","B","C","D","E","F","G","H","I","J","K","L","M",
           "N","O","P","Q","R","S","T","U","V","W","X","Y","Z">>

\* str.upper() on one ASCII character
UpperChar(c) ==
    IF \E i \in 1..Len(Lower) : Lower[i] = c
    THEN Caps[CHOOSE i \in 1..Len(Lower) : Lower[i] = c]
    ELSE c

\* str.upper()
Upper(s) == [i \in 1..Len(s) |-> UpperChar(s[i])]

\* the characters str.strip() removes
Whitespace == {" ", "\n", "\t"}

RECURSIVE LStrip(_)
LStrip(s) == IF s # <<>> /\ Head(s) \in Whitespace THEN LStrip(Tail(s)) ELSE s

RECURSIVE RStrip(_)
RStrip(s) ==
    IF s # <<>> /\ s[Len(s)] \in Whitespace THEN RStrip(SubSeq(s, 1, Len(s) - 1)) ELSE s

\* str.strip()
Strip(s) == RStrip(LStrip(s))

\* str.count(c) for a one-character c
Count(s, c) == Cardinality({i \in 1..Len(s) : s[i] = c})

\* the substring test `p in s`
Contains(s, p) ==
    \E i \in 0..(Len(s) - Len(p)) : SubSeq(s, i + 1, i + Len(p)) = p

\* str.startswith(p)
StartsWith(s, p) == Len(s) >= Len(p) /\ SubSeq(s, 1, Len(p)) = p

-----------------------------------------------------------------------------
(* models.py *)

SQLDialect == {"sqlite", "mysql", "postgresql", "generic"}

DefaultDialect == "generic"   \* QueryInput.sql_dialect and SQLOutput.dialect_used default

-----------------------------------------------------------------------------
(* contracts.py: the patterns of _check_basic_dialect_issues *)

PatTop == <<" ", "T", "O", "P", " ">>
PatAutoincrement == <<"A", "U", "T", "O", "I", "N", "C", "R", "E", "M", "E", "N", "T">>
PatAutoIncrement == <<"A", "U", "T", "O", "_", "I", "N", "C", "R", "E", "M", "E", "N", "T">>
PatFullOuterJoin == <<" ", "F", "U", "L", "L", " ", "O", "U", "T", "E", "R", " ", "J", "O", "I", "N", " ">>
PatIlike == <<" ", "I", "L", "I", "K", "E", " ">>
PatInterval == <<"I", "N", "T", "E", "R", "V", "A", "L">>
PatSerial == <<" ", "S", "E", "R", "I", "A", "L", " ">>
PatStrftime == <<"S", "T", "R", "F", "T", "I", "M", "E">>
PatYes == <<"Y", "E", "S">>

\* mutant of CheckBasicDialectIssues: STRFTIME is an issue outside SQLITE
CheckBasicDialectIssues_Strftime(sql_upper, dialect) ==
    IF dialect = "mysql" THEN
        \/ Contains(sql_upper, PatTop) \/ Contains(sql_upper, PatAutoincrement)
        \/ Contains(sql_upper, PatStrftime)
    ELSE IF dialect = "postgresql" THEN
        \/ Contains(sql_upper, PatTop) \/ Contains(sql_upper, PatAutoIncrement)
        \/ Contains(sql_upper, PatStrftime)
    ELSE IF dialect = "sqlite" THEN
        \/ Contains(sql_upper, PatFullOuterJoin)
        \/ Contains(sql_upper, PatTop)
        \/ Contains(sql_upper, PatIlike)
        \/ Contains(sql_upper, PatInterval)
        \/ Contains(sql_upper, PatSerial)
    ELSE FALSE

\* _check_basic_dialect_issues(sql_upper, dialect): TRUE when an issue is found
CheckBasicDialectIssues(sql_upper, dialect) ==
    IF dialect = "mysql" THEN
        Contains(sql_upper, PatTop) \/ Contains(sql_upper, PatAutoincrement)
    ELSE IF dialect = "postgresql" THEN
        Contains(sql_upper, PatTop) \/ Contains(sql_upper, PatAutoIncrement)
    ELSE IF dialect = "sqlite" THEN
        \/ Contains(sql_upper, PatFullOuterJoin)
        \/ Contains(sql_upper, PatTop)
        \/ Contains(sql_upper, PatIlike)
        \/ Contains(sql_upper, PatInterval)
        \/ Contains(sql_upper, PatSerial)
        \/ (Contains(sql_upper, PatStrftime) /\ dialect # "sqlite")
    ELSE FALSE

(* The deep check's oracle call (validator(validation_prompt)) ends in one of:
   a text response, a response that is not a str, or an exception. *)
TextOutcome(t) == [kind |-> "text", text |-> t]
NonStringOutcome == [kind |-> "nonstring", text |-> <<>>]
RaiseOutcome == [kind |-> "raise", text |-> <<>>]
NotCalled == [kind |-> "not_called", text |-> <<>>]

\* mutant of LlmValidateDialect: an exception of the oracle call rejects the SQL
LlmValidateDialect_FailClosed(outcome) ==
    IF outcome.kind = "raise" THEN FALSE
    ELSE IF outcome.kind = "text" THEN StartsWith(Upper(Strip(outcome.text)), PatYes)
    ELSE TRUE

\* mutant of LlmValidateDialect: only the answer YES itself validates
LlmValidateDialect_ExactYes(outcome) ==
    IF outcome.kind = "raise" THEN TRUE
    ELSE IF outcome.kind = "text" THEN Upper(Strip(outcome.text)) = PatYes
    ELSE TRUE

\* _llm_validate_dialect(sql, dialect, original_query), given the oracle call's outcome
LlmValidateDialect(outcome) ==
    IF outcome.kind = "raise" THEN TRUE
    ELSE IF outcome.kind = "text" THEN StartsWith(Upper(Strip(outcome.text)), PatYes)
    ELSE TRUE

\* _validate_dialect_syntax reaches the deep check: the fast check found no issue
DialectSyntaxReachesDeep(sql, dialect) == ~CheckBasicDialectIssues(Upper(sql), dialect)

\* _validate_dialect_syntax(sql, dialect, original_query)
ValidateDialectSyntax(sql, dialect, outcome) ==
    IF CheckBasicDialectIssues(Upper(sql), dialect) THEN FALSE
    ELSE LlmValidateDialect(outcome)

\* mutant of PostBasicChecks: the double-quote count is not checked
PostBasicChecks_NoDoubleQuotes(raw) ==
    LET sql == Strip(raw) IN
    /\ sql # <<>>
    /\ Count(sql, "(") = Count(sql, ")")
    /\ Count(sql, "'") % 2 = 0

\* the checks of post that come before the dialect validation (lines 144-156)
PostBasicChecks(raw) ==
    LET sql == Strip(raw) IN
    /\ sql # <<>>
    /\ Count(sql, "(") = Count(sql, ")")
    /\ Count(sql, "'") % 2 = 0
    /\ Count(sql, "\"") % 2 = 0

\* mutant of PostReachesDeep: the deep check is consulted for every candidate
PostReachesDeep_Unconditional(raw, dialect) == TRUE

\* post reaches the deep check
PostReachesDeep(raw, dialect) ==
    PostBasicChecks(raw) /\ DialectSyntaxReachesDeep(Strip(raw), dialect)

\* post(result) with result.sql = raw, evaluated while self.current_dialect = dialect
Post(raw, dialect, outcome) ==
    IF ~PostBasicChecks(raw) THEN FALSE
    ELSE ValidateDialectSyntax(Strip(raw), dialect, outcome)

\* pre(input)
Pre(query) == Len(Strip(query)) > 0

-----------------------------------------------------------------------------
(* Inputs of the validator harness: SQL texts Head . D1 . Token . D2 . Tail *)

Heads ==
    {<<>>,
     <<"s", "e", "l", "e", "c", "t">>,
     <<" ", "s", "e", "l", "e", "c", "t">>,
     <<"D", "R", "O", "P">>}
Delims ==
    {<<>>,
     <<" ">>,
     <<"\n">>,
     <<"(">>,
     <<")">>,
     <<"'">>,
     <<"\"">>}
Tokens ==
    {<<>>,
     <<"x">>,
     <<"T", "o", "p">>,
     <<"A", "u", "t", "o", "I", "n", "c", "r", "e", "m", "e", "n", "t">>,
     <<"A", "u", "t", "o", "_", "I", "n", "c", "r", "e", "m", "e", "n", "t">>,
     <<"F", "u", "l", "l", " ", "O", "u", "t", "e", "r", " ", "J", "o", "i", "n">>,
     <<"i", "L", "i", "k", "e">>,
     <<"I", "n", "t", "e", "r", "v", "a", "l">>,
     <<"S", "e", "r", "i", "a", "l">>,
     <<"s", "t", "r", "f", "t", "i", "m", "e">>}
Tails ==
    {<<>>,
     <<"x">>}
DeepTexts ==
    {<<"Y", "E", "S">>,
     <<" ", "y", "e", "s", "\n">>,
     <<"N", "O">>,
     <<>>}

\* the SQL texts the harness validates
SQLTexts == {h \o d1 \o k \o d2 \o t : h \in Heads, d1 \in Delims, k \in Tokens,
                                            d2 \in Delims, t \in Tails}

\* the outcomes of the deep check's oracle call
DeepOutcomes == {TextOutcome(t) : t \in DeepTexts} \cup {NonStringOutcome, RaiseOutcome}

\* the outcomes the harness draws from: those, and an answer that goes on after YES
HarnessOutcomes == DeepOutcomes \cup {TextOutcome(<<"Y", "e", "s", ".">>)}

-----------------------------------------------------------------------------
(* Inputs of the contract: queries, and the SQL texts the generation oracle answers *)

Queries ==
    {<<>>,
     <<" ", "\n">>,
     <<"a">>,
     <<" ", "b">>}
OracleSQL ==
    {<<"S", "E", "L", "E", "C", "T", " ", "*", " ", "F", "R", "O", "M", " ", "u", "s", "e", "r", "s", " ", "L", "I", "M", "I", "T", " ", "1", "0">>,
     <<" ", " ", "s", "e", "l", "e", "c", "t", " ", "1", "\n">>,
     <<"S", "E", "L", "E", "C", "T", " ", "T", "O", "P", " ", "1", "0", " ", "*", " ", "F", "R", "O", "M", " ", "u", "s", "e", "r", "s">>,
     <<"S", "E", "L", "E", "C", "T", " ", "*", " ", "F", "R", "O", "M", " ", "a", " ", "F", "U", "L", "L", " ", "O", "U", "T", "E", "R", " ", "J", "O", "I", "N", " ", "b">>,
     <<"S", "E", "L", "E", "C", "T", " ", "(">>,
     <<>>,
     <<" ">>,
     <<"D", "R", "O", "P", " ", "T", "A", "B", "L", "E", " ", "u", "s", "e", "r", "s">>}
SentinelSQL == <<"S", "E", "L", "E", "C", "T", " ", "1", ";">>
PatSelect == <<"S", "E", "L", "E", "C", "T">>

-----------------------------------------------------------------------------
(* models.py: SQLOutput and QueryInput *)

Omitted == "omitted"

\* SQLOutput(...) built from the oracle's structured answer: the field defaults of
\* models.py fill what the answer omits
MakeSQLOutput(raw) ==
    [sql |-> raw.sql,
     is_valid |-> IF raw.is_valid = Omitted THEN TRUE ELSE raw.is_valid = "true",
     validation_notes |-> IF raw.validation_notes = Omitted THEN "" ELSE raw.validation_notes,
     dialect_used |-> IF raw.dialect_used = Omitted THEN DefaultDialect ELSE raw.dialect_used]

\* the optional fields of the oracle's answers
RawExtras ==
    {[is_valid |-> Omitted, validation_notes |-> Omitted, dialect_used |-> Omitted],
     [is_valid |-> "false", validation_notes |-> "note", dialect_used |-> "mysql"],
     [is_valid |-> "true", validation_notes |-> Omitted, dialect_used |-> "sqlite"]}

\* the structured answers of the generation oracle
OracleAnswers ==
    {[sql |-> s, is_valid |-> e.is_valid, validation_notes |-> e.validation_notes,
      dialect_used |-> e.dialect_used] : s \in OracleSQL, e \in RawExtras}

\* QueryInput(query=q, sql_dialect=d)
QueryInput(q, d) == [query |-> q, sql_dialect |-> d]

\* Python's None, for contract_result
None == [none |-> TRUE]

\* forward's fallback: SQLOutput(sql="SELECT 1;")
Sentinel ==
    MakeSQLOutput([sql |-> SentinelSQL, is_valid |-> Omitted, validation_notes |-> Omitted,
                   dialect_used |-> Omitted])

-----------------------------------------------------------------------------
(* The backing store of database.py: an SQLite database file.  A table has a
   name, columns (name, declared type, notnull flag, position in the primary
   key or 0) and rows of integer values.  Names, types and statements are
   sequences of one-character strings. *)

Column(n, ty, nn, pk) == [name |-> n, type |-> ty, notnull |-> nn, pk |-> pk]
Table(n, cs, rs) == [name |-> n, cols |-> cs, rows |-> rs]

TableT ==
    Table(<<"t">>,
          <<Column(<<"i", "d">>, <<"I", "N", "T", "E", "G", "E", "R">>, 0, 1), Column(<<"n">>, <<"T", "E", "X", "T">>, 1, 0), Column(<<"x">>, <<>>, 0, 0)>>,
          <<<<1, 7, 3>>, <<2, 8, 4>>>>)
TableAB == Table(<<"a", " ", "b">>, <<Column(<<"i", "d">>, <<"I", "N", "T">>, 1, 1)>>, <<>>)
TableQ1 == Table(<<"a", "\"", "b">>, <<Column(<<"q">>, <<"I", "N", "T">>, 0, 0)>>, <<<<1>>, <<2>>, <<3>>>>)
TableQ2 == Table(<<"a", "\"", "\"", "b">>, <<Column(<<"z">>, <<"I", "N", "T">>, 0, 0), Column(<<"w">>, <<"T", "E", "X", "T">>, 1, 0)>>, <<<<5, 6>>>>)

\* the database files the handle is opened on: the tables in sqlite_master order
Stores ==
    {<<>>,
     <<TableT>>,
     <<TableT, TableAB>>,
     <<TableT, TableQ1>>,
     <<TableQ1, TableQ2>>}

\* the table names callers ask about
TableNames == {<<"t">>, <<"a", " ", "b">>, <<"a", "\"", "b">>, <<"a", "\"", "\"", "b">>, <<"t", "\"", ")", " ", "-", "-">>, <<"n", "o", "p", "e">>}

HasTable(st, n) == \E i \in 1..Len(st) : st[i].name = n
GetTable(st, n) == st[CHOOSE i \in 1..Len(st) : st[i].name = n]

\* the store without the table n
RECURSIVE DropTable(_, _)
DropTable(st, n) ==
    IF st = <<>> THEN <<>>
    ELSE IF Head(st).name = n THEN DropTable(Tail(st), n)
    ELSE <<Head(st)>> \o DropTable(Tail(st), n)

-----------------------------------------------------------------------------
(* SQLite's reading of the statements sent through cursor.execute: the fragment
   of the SQL grammar that the statements of database.py and the statements of
   the model's callers use.  Everything else is a syntax error. *)

DQuote == "\""

\* a double-quoted identifier, read from the character after the opening quote:
\* a doubled quote stands for one quote, a single quote ends the identifier
RECURSIVE ScanQuoted(_, _)
ScanQuoted(s, acc) ==
    IF s = <<>> THEN [ok |-> FALSE, name |-> acc, rest |-> <<>>]
    ELSE IF Head(s) = DQuote
    THEN IF Len(s) >= 2 /\ s[2] = DQuote
         THEN ScanQuoted(Tail(Tail(s)), Append(acc, DQuote))
         ELSE [ok |-> TRUE, name |-> acc, rest |-> Tail(s)]
    ELSE ScanQuoted(Tail(s), Append(acc, Head(s)))

IdentChars == {Lower[i] : i \in 1..Len(Lower)} \cup {Caps[i] : i \in 1..Len(Caps)} \cup {"_"}

\* a bare identifier: the longest run of letters and underscores
RECURSIVE ScanBare(_, _)
ScanBare(s, acc) ==
    IF s # <<>> /\ Head(s) \in IdentChars
    THEN ScanBare(Tail(s), Append(acc, Head(s)))
    ELSE [ok |-> acc # <<>>, name |-> acc, rest |-> s]

\* an identifier at the start of s, quoted or bare
ScanIdentifier(s) ==
    IF s # <<>> /\ Head(s) = DQuote THEN ScanQuoted(Tail(s), <<>>) ELSE ScanBare(s, <<>>)

\* nothing but white space, an optional semicolon and an optional -- comment is left
StatementEnds(s) ==
    LET r == LStrip(s)
        q == IF r # <<>> /\ Head(r) = ";" THEN LStrip(Tail(r)) ELSE r
    IN  q = <<>> \/ StartsWith(q, <<"-", "-">>)

\* s without its first n characters
Drop(s, n) == SubSeq(s, n + 1, Len(s))

PragmaPrefix == <<"P", "R", "A", "G", "M", "A", " ", "t", "a", "b", "l", "e", "_", "i", "n", "f", "o", "(">>
CountPrefix == <<"S", "E", "L", "E", "C", "T", " ", "C", "O", "U", "N", "T", "(", "*", ")", " ", "F", "R", "O", "M", " ">>
SelectAllPrefix == <<"S", "E", "L", "E", "C", "T", " ", "*", " ", "F", "R", "O", "M", " ">>
SelectTwicePrefix == <<"S", "E", "L", "E", "C", "T", " ", "*", ",", " ", "*", " ", "F", "R", "O", "M", " ">>
DropPrefix == <<"D", "R", "O", "P", " ", "T", "A", "B", "L", "E", " ", "I", "F", " ", "E", "X", "I", "S", "T", "S", " ">>
TableNamesQuery == <<"S", "E", "L", "E", "C", "T", " ", "n", "a", "m", "e", " ", "F", "R", "O", "M", " ", "s", "q", "l", "i", "t", "e", "_", "m", "a", "s", "t", "e", "r", " ", "W", "H", "E", "R", "E", " ", "t", "y", "p", "e", "=", "'", "t", "a", "b", "l", "e", "'">>
SelectOne == <<"S", "E", "L", "E", "C", "T", " ", "1">>
CountColumn == <<"C", "O", "U", "N", "T", "(", "*", ")">>
NameColumn == <<"n", "a", "m", "e">>
OneColumn == <<"1">>

\* what cursor.execute leaves behind: a result set (cursor.description and the rows
\* of fetchall), no result set (description None), or sqlite3.OperationalError
ResultSet(cs, rs) == [kind |-> "rows", columns |-> cs, rows |-> rs]
NoResultSet == [kind |-> "norows", columns |-> <<>>, rows |-> <<>>]
OperationalError == [kind |-> "error", columns |-> <<>>, rows |-> <<>>]

\* the statement begins with the keywords p, in any letter case
HasPrefix(s, p) == StartsWith(Upper(s), Upper(p))

\* one row of PRAGMA table_info: (cid, name, type, notnull, dflt_value, pk)
PragmaRow(cid, c) == <<cid, c.name, c.type, c.notnull, None, c.pk>>
PragmaColumns == <<<<"c", "i", "d">>, <<"n", "a", "m", "e">>, <<"t", "y", "p", "e">>, <<"n", "o", "t", "n", "u", "l", "l">>, <<"d", "f", "l", "t", "_", "v", "a", "l", "u", "e">>, <<"p", "k">>>>

\* PRAGMA table_info(<identifier>): one row per column, no row for an unknown table
ExecPragma(st, s) ==
    LET id == ScanIdentifier(Drop(s, Len(PragmaPrefix))) IN
    IF ~id.ok \/ id.rest = <<>> \/ Head(id.rest) # ")" \/ ~StatementEnds(Tail(id.rest))
    THEN OperationalError
    ELSE IF HasTable(st, id.name)
    THEN LET cs == GetTable(st, id.name).cols
         IN  ResultSet(PragmaColumns, [i \in 1..Len(cs) |-> PragmaRow(i - 1, cs[i])])
    ELSE ResultSet(PragmaColumns, <<>>)

\* SELECT COUNT(*) FROM <identifier>
ExecCount(st, s) ==
    LET id == ScanIdentifier(Drop(s, Len(CountPrefix))) IN
    IF ~id.ok \/ ~StatementEnds(id.rest) \/ ~HasTable(st, id.name)
    THEN OperationalError
    ELSE ResultSet(<<CountColumn>>, <<<<Len(GetTable(st, id.name).rows)>>>>)

\* SELECT * FROM <identifier>
ExecSelectAll(st, s) ==
    LET id == ScanIdentifier(Drop(s, Len(SelectAllPrefix))) IN
    IF ~id.ok \/ ~StatementEnds(id.rest) \/ ~HasTable(st, id.name)
    THEN OperationalError
    ELSE LET t == GetTable(st, id.name)
         IN  ResultSet([i \in 1..Len(t.cols) |-> t.cols[i].name], t.rows)

\* SELECT *, * FROM <identifier>: every column twice
ExecSelectTwice(st, s) ==
    LET id == ScanIdentifier(Drop(s, Len(SelectTwicePrefix))) IN
    IF ~id.ok \/ ~StatementEnds(id.rest) \/ ~HasTable(st, id.name)
    THEN OperationalError
    ELSE LET t == GetTable(st, id.name)
             cs == [i \in 1..Len(t.cols) |-> t.cols[i].name]
         IN  ResultSet(cs \o cs, [i \in 1..Len(t.rows) |-> t.rows[i] \o t.rows[i]])

\* DROP TABLE IF EXISTS <identifier>: no result set
ExecDrop(st, s) ==
    LET id == ScanIdentifier(Drop(s, Len(DropPrefix))) IN
    IF ~id.ok \/ ~StatementEnds(id.rest) THEN OperationalError ELSE NoResultSet

\* cursor.execute(statement) on a connection to the store st
StoreExecute(st, statement) ==
    LET s == LStrip(statement) IN
    IF HasPrefix(s, PragmaPrefix) THEN ExecPragma(st, s)
    ELSE IF HasPrefix(s, CountPrefix) THEN ExecCount(st, s)
    ELSE IF HasPrefix(s, SelectAllPrefix) THEN ExecSelectAll(st, s)
    ELSE IF HasPrefix(s, SelectTwicePrefix) THEN ExecSelectTwice(st, s)
    ELSE IF HasPrefix(s, DropPrefix) THEN ExecDrop(st, s)
    ELSE IF HasPrefix(s, TableNamesQuery) /\ StatementEnds(Drop(s, Len(TableNamesQuery)))
    THEN ResultSet(<<NameColumn>>, [i \in 1..Len(st) |-> <<st[i].name>>])
    ELSE IF HasPrefix(s, SelectOne) /\ StatementEnds(Drop(s, Len(SelectOne)))
    THEN ResultSet(<<OneColumn>>, <<<<1>>>>)
    ELSE OperationalError

\* the store after cursor.execute(statement): DROP TABLE is applied at once
\* (sqlite3 opens no transaction for DDL), every other statement of the fragment
\* leaves the store as it is
StoreAfter(st, statement) ==
    LET s == LStrip(statement) IN
    IF HasPrefix(s, DropPrefix) /\ ExecDrop(st, s).kind = "norows"
    THEN DropTable(st, ScanIdentifier(Drop(s, Len(DropPrefix))).name)
    ELSE st

-----------------------------------------------------------------------------
(* database.py: SQLInterface.  self.connection is 0 for None and the number of
   the sqlite3 connection otherwise; a method either returns a value or raises. *)

NoConnection == 0

Returns(v) == [kind |-> "return", error |-> "none", value |-> v]
Raises(e) == [kind |-> "raise", error |-> e, value |-> <<>>]

\* sep.join(parts)
RECURSIVE Join(_, _)
Join(sep, parts) ==
    IF parts = <<>> THEN <<>>
    ELSE IF Len(parts) = 1 THEN parts[1]
    ELSE parts[1] \o sep \o Join(sep, Tail(parts))

\* d[k] = v on a dict kept as the sequence of its (key, value) items: a key that is
\* present keeps its place and takes the new value, a new key goes to the end
DictSet(d, k, v) ==
    IF \E i \in 1..Len(d) : d[i][1] = k
    THEN [i \in 1..Len(d) |-> IF d[i][1] = k THEN <<k, v>> ELSE d[i]]
    ELSE Append(d, <<k, v>>)

\* dict(zip(columns, row))
RECURSIVE DictZip(_, _)
DictZip(columns, row) ==
    IF columns = <<>> \/ row = <<>> THEN <<>>
    ELSE LET n == IF Len(columns) < Len(row) THEN Len(columns) ELSE Len(row)
         IN  DictSet(DictZip(SubSeq(columns, 1, n - 1), SubSeq(row, 1, n - 1)),
                     columns[n], row[n])

\* f'PRAGMA table_info("{table_name}")'
PragmaQuery(table_name) == <<"P", "R", "A", "G", "M", "A", " ", "t", "a", "b", "l", "e", "_", "i", "n", "f", "o", "(", "\"">> \o table_name \o <<"\"", ")">>

\* f'SELECT COUNT(*) FROM "{table_name}"'
CountQuery(table_name) == <<"S", "E", "L", "E", "C", "T", " ", "C", "O", "U", "N", "T", "(", "*", ")", " ", "F", "R", "O", "M", " ", "\"">> \o table_name \o <<"\"">>

\* mutant of ColDesc: NOT NULL is shown for a primary-key column too
ColDesc_NotNullAlways(col) ==
    LET is_pk == col[6] # 0
        not_null == col[4] # 0
    IN  col[2] \o <<" ", "(">> \o col[3]
        \o (IF is_pk THEN <<",", " ", "P", "R", "I", "M", "A", "R", "Y", " ", "K", "E", "Y">> ELSE <<>>)
        \o (IF not_null THEN <<",", " ", "N", "O", "T", " ", "N", "U", "L", "L">> ELSE <<>>)
        \o <<")">>

\* col_desc of one row of PRAGMA table_info (col[1] name, col[2] type, col[3]
\* notnull, col[5] pk; the rows of the model are indexed from 1)
ColDesc(col) ==
    LET is_pk == col[6] # 0
        not_null == col[4] # 0
    IN  col[2] \o <<" ", "(">> \o col[3]
        \o (IF is_pk THEN <<",", " ", "P", "R", "I", "M", "A", "R", "Y", " ", "K", "E", "Y">> ELSE <<>>)
        \o (IF not_null /\ ~is_pk THEN <<",", " ", "N", "O", "T", " ", "N", "U", "L", "L">> ELSE <<>>)
        \o <<")">>

\* ", ".join(column_parts)
ColumnParts(columns) == Join(<<",", " ">>, [i \in 1..Len(columns) |-> ColDesc(columns[i])])

\* get_table_names()
GetTableNamesResult(conn, st) ==
    IF conn = NoConnection THEN Raises("RuntimeError")
    ELSE LET r == StoreExecute(st, TableNamesQuery)
         IN  Returns([i \in 1..Len(r.rows) |-> r.rows[i][1]])

\* get_table_schema(table_name)
GetTableSchemaResult(conn, st, table_name) ==
    IF conn = NoConnection THEN Raises("RuntimeError")
    ELSE LET r == StoreExecute(st, PragmaQuery(table_name))
         IN  IF r.kind = "error" THEN Raises("OperationalError")
             ELSE IF r.rows = <<>> THEN Raises("ValueError")
             ELSE Returns(Join(<<"\n", " ", " ", " ">>, <<<<"T", "a", "b", "l", "e", ":", " ">> \o table_name,
                                          <<"C", "o", "l", "u", "m", "n", "s", ":", " ">> \o ColumnParts(r.rows)>>))

\* mutant of GetColumnsInfoResult: the items are joined by a comma alone
GetColumnsInfoResult_NoSpace(conn, st, table_name) ==
    IF conn = NoConnection THEN Raises("RuntimeError")
    ELSE LET r == StoreExecute(st, PragmaQuery(table_name))
         IN  IF r.kind = "error" THEN Raises("OperationalError")
             ELSE IF r.rows = <<>> THEN Raises("ValueError")
             ELSE Returns(Join(<<",">>, [i \in 1..Len(r.rows) |-> ColDesc(r.rows[i])]))

\* get_columns_info(table_name)
GetColumnsInfoResult(conn, st, table_name) ==
    IF conn = NoConnection THEN Raises("RuntimeError")
    ELSE LET r == StoreExecute(st, PragmaQuery(table_name))
         IN  IF r.kind = "error" THEN Raises("OperationalError")
             ELSE IF r.rows = <<>> THEN Raises("ValueError")
             ELSE Returns(ColumnParts(r.rows))

\* the loop of list_tables_with_info over the remaining table names
RECURSIVE ListTablesLoop(_, _, _)
ListTablesLoop(st, names, tables) ==
    IF names = <<>> THEN Returns(tables)
    ELSE LET table_name == Head(names)
             c == StoreExecute(st, CountQuery(table_name))
             p == StoreExecute(st, PragmaQuery(table_name))
         IN  IF c.kind = "error" \/ p.kind = "error" THEN Raises("OperationalError")
             ELSE ListTablesLoop(st, Tail(names),
                      DictSet(tables, table_name,
                              [row_count |-> c.rows[1][1],
                               column_count |-> Len(p.rows),
                               columns |-> [i \in 1..Len(p.rows) |-> p.rows[i][2]]]))

\* list_tables_with_info()
ListTablesWithInfoResult(conn, st) ==
    IF conn = NoConnection THEN Raises("RuntimeError")
    ELSE ListTablesLoop(st, GetTableNamesResult(conn, st).value, <<>>)

\* execute_query(sql_query): cursor.description is None when the statement leaves
\* no result set, and iterating over it raises TypeError
ExecuteQueryResult(conn, st, sql_query) ==
    IF conn = NoConnection THEN Raises("RuntimeError")
    ELSE LET r == StoreExecute(st, sql_query)
         IN  IF r.kind = "error" THEN Raises("OperationalError")
             ELSE IF r.kind = "norows" THEN Raises("TypeError")
             ELSE Returns([i \in 1..Len(r.rows) |-> DictZip(r.columns, r.rows[i])])

\* the metadata queries list_tables_with_info builds, up to the first that fails
RECURSIVE ListTablesQueries(_, _)
ListTablesQueries(st, names) ==
    IF names = <<>> THEN <<>>
    ELSE LET n == Head(names)
             cq == [name |-> n, prefix |-> CountPrefix, suffix |-> <<>>, text |-> CountQuery(n)]
             pq == [name |-> n, prefix |-> PragmaPrefix, suffix |-> <<")">>, text |-> PragmaQuery(n)]
         IN  IF StoreExecute(st, cq.text).kind = "error" THEN <<cq>>
             ELSE IF StoreExecute(st, pq.text).kind = "error" THEN <<cq, pq>>
             ELSE <<cq, pq>> \o ListTablesQueries(st, Tail(names))

\* the metadata query get_table_schema and get_columns_info build
DescribeQueries(conn, table_name) ==
    IF conn = NoConnection THEN <<>>
    ELSE <<[name |-> table_name, prefix |-> PragmaPrefix, suffix |-> <<")">>,
            text |-> PragmaQuery(table_name)]>>

\* the statements callers hand to execute_query
Statements ==
    {<<"S", "E", "L", "E", "C", "T", " ", "*", " ", "F", "R", "O", "M", " ", "t">>,
     <<"S", "E", "L", "E", "C", "T", " ", "*", ",", " ", "*", " ", "F", "R", "O", "M", " ", "t">>,
     <<"s", "e", "l", "e", "c", "t", " ", "*", " ", "f", "r", "o", "m", " ", "\"", "a", " ", "b", "\"">>,
     <<"S", "E", "L", "E", "C", "T", " ", "*", " ", "F", "R", "O", "M", " ", "\"", "a", "\"", "\"", "b", "\"">>,
     <<"S", "E", "L", "E", "C", "T", " ", "*", " ", "F", "R", "O", "M", " ", "n", "o", "p", "e">>,
     <<"S", "E", "L", "E", "C", "T", " ", "(">>,
     <<"S", "E", "L", "E", "C", "T", " ", "1", ";">>,
     <<"D", "R", "O", "P", " ", "T", "A", "B", "L", "E", " ", "I", "F", " ", "E", "X", "I", "S", "T", "S", " ", "t">>,
     <<"D", "R", "O", "P", " ", "T", "A", "B", "L", "E", " ", "I", "F", " ", "E", "X", "I", "S", "T", "S", " ", "n", "o", "p", "e">>}

\* The number of scopes opened on the handle in one behaviour.
MaxScopes == 2

NoCall == [op |-> "none", arg |-> <<>>, outcome |-> Returns(<<>>), queries |-> <<>>, store |-> <<>>]
NoScope == [left |-> "none", raised |-> "none"]

\* SQLInterface(database_path) after __init__, on one of the database files
DInit ==
    /\ store \in Stores
    /\ connection = NoConnection
    /\ open_conns = {}
    /\ conn_count = 0
    /\ d_pc = "outside"
    /\ d_exc = "none"
    /\ d_scope = NoScope
    /\ d_last = NoCall
    /\ d_rep = 0

\* the database part of a state in which no SQLInterface is in use
DIdle ==
    /\ store = <<>>
    /\ connection = NoConnection
    /\ open_conns = {}
    /\ conn_count = 0
    /\ d_pc = "outside"
    /\ d_exc = "none"
    /\ d_scope = NoScope
    /\ d_last = NoCall
    /\ d_rep = 0

\* mutant of Disconnect: the reference is dropped but the connection is not closed
Disconnect_NoClose(conn, open) ==
    [connection |-> NoConnection, open |-> open]

\* disconnect(): closes the connection, if there is one, and forgets it
Disconnect(conn, open) ==
    IF conn # NoConnection
    THEN [connection |-> NoConnection, open |-> open \ {conn}]
    ELSE [connection |-> conn, open |-> open]

\* __enter__: connect() opens a new sqlite3 connection and stores it
Enter ==
    /\ d_pc = "outside"
    /\ conn_count < MaxScopes
    /\ conn_count' = conn_count + 1
    /\ connection' = conn_count + 1
    /\ open_conns' = open_conns \cup {conn_count + 1}
    /\ d_pc' = "inside"
    /\ d_exc' = "none"
    /\ d_scope' = NoScope
    /\ UNCHANGED <<store, d_last, d_rep>>

\* __enter__ when sqlite3.connect raises (the file cannot be opened): the scope is
\* not entered
EnterFails ==
    /\ d_pc = "outside"
    /\ conn_count < MaxScopes
    /\ d_exc' = "OperationalError"
    /\ d_scope' = NoScope
    /\ UNCHANGED <<store, connection, open_conns, conn_count, d_pc, d_last, d_rep>>

\* __exit__(exc_type, exc_val, exc_tb): disconnect(), and the None it returns lets
\* the body's exception, if there is one, go on to the caller
Exit ==
    /\ d_pc \in {"inside", "raising"}
    /\ LET d == Disconnect(connection, open_conns)
       IN  /\ connection' = d.connection
           /\ open_conns' = d.open
    /\ d_scope' = [left |-> IF d_pc = "raising" THEN "exception" ELSE "normal",
                   raised |-> d_exc]
    /\ d_pc' = "outside"
    /\ UNCHANGED <<store, conn_count, d_exc, d_last, d_rep>>

\* the body of the scope raises an exception of its own
BodyRaises ==
    /\ d_pc = "inside"
    /\ d_pc' = "raising"
    /\ d_exc' = "BodyError"
    /\ UNCHANGED <<store, connection, open_conns, conn_count, d_scope, d_last, d_rep>>

\* a method call ends: its outcome is recorded, and an exception raised inside the
\* scope starts to leave it
Called(op, arg, out, qs) ==
    /\ d_pc \in {"inside", "outside"}
    /\ d_last' = [op |-> op, arg |-> arg, outcome |-> out, queries |-> qs, store |-> store]
    /\ d_rep' = IF /\ op = "get_table_schema" /\ d_last.op = op /\ d_last.arg = arg
                   /\ d_last.store = store /\ out.kind = "return"
                   /\ d_last.outcome.kind = "return"
                THEN 1 ELSE 0
    /\ d_exc' = IF out.kind = "raise" THEN out.error ELSE "none"
    /\ d_pc' = IF out.kind = "raise" /\ d_pc = "inside" THEN "raising" ELSE d_pc
    /\ d_scope' = NoScope

GetTableNames ==
    /\ Called("get_table_names", <<>>, GetTableNamesResult(connection, store), <<>>)
    /\ UNCHANGED <<store, connection, open_conns, conn_count>>

\* mutant of GetTableSchema: the handle is disconnected after the description
GetTableSchema_Disconnecting(names) ==
    /\ \E n \in names :
        Called("get_table_schema", n, GetTableSchemaResult(connection, store, n),
               DescribeQueries(connection, n))
    /\ connection' = NoConnection
    /\ UNCHANGED <<store, open_conns, conn_count>>

GetTableSchema(names) ==
    /\ \E n \in names :
        Called("get_table_schema", n, GetTableSchemaResult(connection, store, n),
               DescribeQueries(connection, n))
    /\ UNCHANGED <<store, connection, open_conns, conn_count>>

GetColumnsInfo(names) ==
    /\ \E n \in names :
        Called("get_columns_info", n, GetColumnsInfoResult(connection, store, n),
               DescribeQueries(connection, n))
    /\ UNCHANGED <<store, connection, open_conns, conn_count>>

ListTablesWithInfo ==
    /\ Called("list_tables_with_info", <<>>, ListTablesWithInfoResult(connection, store),
              IF connection = NoConnection THEN <<>>
              ELSE ListTablesQueries(store, GetTableNamesResult(connection, store).value))
    /\ UNCHANGED <<store, connection, open_conns, conn_count>>

\* mutant of ExecuteQuery: the statement is executed before the connection is looked at
ExecuteQuery_Unguarded(statements) ==
    /\ \E q \in statements :
        /\ Called("execute_query", q, ExecuteQueryResult(connection, store, q), <<>>)
        /\ store' = StoreAfter(store, q)
    /\ UNCHANGED <<connection, open_conns, conn_count>>

\* execute_query(sql_query): the statement is executed once, also when the shaping
\* of its result raises afterwards
ExecuteQuery(statements) ==
    /\ \E q \in statements :
        /\ Called("execute_query", q, ExecuteQueryResult(connection, store, q), <<>>)
        /\ store' = IF connection = NoConnection THEN store ELSE StoreAfter(store, q)
    /\ UNCHANGED <<connection, open_conns, conn_count>>


-----------------------------------------------------------------------------
(* The callers of the generator: SQLGeneratorService (sql_generator.py) and the
   /query-db handler (api.py), before their first call *)

NoSvcReq ==
    [entry |-> "none", natural_query |-> <<>>, table_name |-> <<>>, columns_info |-> <<>>,
     table_schema |-> <<>>]
NoDelegate == [count |-> 0, natural_query |-> <<>>, table_schema |-> <<>>]

\* SQLGeneratorService() after __init__
SIdle ==
    /\ s_pc = "idle"
    /\ s_req = NoSvcReq
    /\ s_delegate = NoDelegate
    /\ s_ret = <<>>

NoApiReq == [query |-> <<>>, table_name |-> <<>>, execute |-> FALSE]
NoResponse == [success |-> FALSE]
NoObs == [generators |-> 0, executions |-> 0, gen_calls |-> 0, safe_sql |-> <<>>]
NoDatabase == [tables |-> <<>>, schema_info |-> <<>>]

\* api.py before a database is uploaded and before the first request
AIdle ==
    /\ a_pc = "idle"
    /\ a_req = NoApiReq
    /\ a_resp = NoResponse
    /\ a_obs = NoObs
    /\ a_db = NoDatabase

-----------------------------------------------------------------------------
(* contracts.py: one SemanticSQLGenerator instance and the invocations on it *)

Threads == {1, 2}

\* The retry budget of the @contract decorator: the number of generation attempts
\* it makes before the contract fails.  contracts.py passes no remedy_retry_params,
\* so the decorator's own default applies; the model holds for any value.
MaxTries == 2

\* the original_query of the deep check: post hands it
\* getattr(self, '_current_query', ''), and no deep check has no original_query
OriginalQuery(q) == [given |-> TRUE, q |-> q]
NoQuery == [given |-> FALSE, q |-> <<>>]

NoReq == QueryInput(<<>>, "none")
NoHist ==
    [outcome |-> "none", gen_calls |-> 0, deep_calls |-> 0, prompt_dialect |-> "none",
     post_dialect |-> "none", post_sql |-> <<>>, post_ok |-> FALSE, deep |-> NotCalled,
     deep_query |-> NoQuery]

\* getattr(self, '_current_query', '')
GetCurrentQuery == IF current_query.set THEN current_query.q ELSE <<>>

\* the state of a SemanticSQLGenerator after __init__ (and the decorator's __init__)
GInit ==
    /\ current_dialect = "generic"
    /\ current_query = [set |-> FALSE, q |-> <<>>]
    /\ contract_result = None
    /\ contract_successful = FALSE
    /\ pc = [t \in Threads |-> "idle"]
    /\ req = [t \in Threads |-> NoReq]
    /\ cand = [t \in Threads |-> None]
    /\ tries = [t \in Threads |-> 0]
    /\ ret = [t \in Threads |-> None]
    /\ hist = [t \in Threads |-> NoHist]

\* the decorator retries the generation while its budget lasts
BudgetLeft(n) == n < MaxTries

\* mutant of Call: the dialect is not set before the contract runs
Call_DialectNotSet(t, qs, ds) ==
    /\ pc[t] = "idle"
    /\ \E q \in qs, d \in ds :
        req' = [req EXCEPT ![t] = QueryInput(q, d)]
    /\ contract_result' = None
    /\ contract_successful' = FALSE
    /\ pc' = [pc EXCEPT ![t] = "pre"]
    /\ hist' = [hist EXCEPT ![t] = NoHist]
    /\ tries' = [tries EXCEPT ![t] = 0]
    /\ cand' = [cand EXCEPT ![t] = None]
    /\ ret' = [ret EXCEPT ![t] = None]
    /\ UNCHANGED <<current_dialect, current_query>>

\* __call__(input): sets the dialect, then enters the decorator's wrapped forward,
\* which starts a contract run (contract_successful False, contract_result None)
Call(t, qs, ds) ==
    /\ pc[t] = "idle"
    /\ \E q \in qs, d \in ds :
        /\ req' = [req EXCEPT ![t] = QueryInput(q, d)]
        /\ current_dialect' = d
    /\ contract_result' = None
    /\ contract_successful' = FALSE
    /\ pc' = [pc EXCEPT ![t] = "pre"]
    /\ hist' = [hist EXCEPT ![t] = NoHist]
    /\ tries' = [tries EXCEPT ![t] = 0]
    /\ cand' = [cand EXCEPT ![t] = None]
    /\ ret' = [ret EXCEPT ![t] = None]
    /\ UNCHANGED current_query

\* the decorator evaluates pre(input); pre_remedy=False: a false pre fails the
\* contract at once and the original forward runs next
PreStep(t) ==
    /\ pc[t] = "pre"
    /\ IF Pre(req[t].query)
       THEN /\ pc' = [pc EXCEPT ![t] = "attempt"]
            /\ UNCHANGED <<hist, contract_result, contract_successful>>
       ELSE /\ pc' = [pc EXCEPT ![t] = "forward"]
            /\ hist' = [hist EXCEPT ![t].outcome = "pre_failed"]
            /\ contract_result' = None
            /\ contract_successful' = FALSE
    /\ UNCHANGED <<current_dialect, current_query, req, cand, tries, ret>>

\* one generation attempt: the prompt property is rendered from current_dialect and
\* the oracle answers with a candidate SQLOutput
Attempt(t, answers) ==
    /\ pc[t] = "attempt"
    /\ \E raw \in answers :
        cand' = [cand EXCEPT ![t] = MakeSQLOutput(raw)]
    /\ tries' = [tries EXCEPT ![t] = @ + 1]
    /\ hist' = [hist EXCEPT ![t].gen_calls = @ + 1,
                            ![t].prompt_dialect = current_dialect]
    /\ pc' = [pc EXCEPT ![t] = "validate"]
    /\ UNCHANGED <<current_dialect, current_query, contract_result, contract_successful,
                   req, ret>>

\* the generation oracle raises or answers nothing: the contract fails
AttemptFails(t) ==
    /\ pc[t] = "attempt"
    /\ tries' = [tries EXCEPT ![t] = @ + 1]
    /\ hist' = [hist EXCEPT ![t].gen_calls = @ + 1,
                            ![t].prompt_dialect = current_dialect,
                            ![t].outcome = "oracle_failed"]
    /\ contract_result' = None
    /\ contract_successful' = FALSE
    /\ pc' = [pc EXCEPT ![t] = "forward"]
    /\ UNCHANGED <<current_dialect, current_query, req, cand, ret>>

\* mutant of Verdict: when the budget is spent the last candidate is accepted
Verdict_AcceptLast(ok, n) ==
    IF ok \/ ~BudgetLeft(n) THEN "accepted" ELSE "retry"

\* post_remedy=True: what the decorator does with post's answer for the n-th
\* candidate: accept it, retry the generation while its budget lasts, or fail
Verdict(ok, n) ==
    IF ok THEN "accepted" ELSE IF BudgetLeft(n) THEN "retry" ELSE "exhausted"

\* mutant of Validate: post writes the trimmed text back into the candidate
Validate_Trimming(t, outcomes) ==
    /\ pc[t] = "validate"
    /\ \E o \in outcomes :
        LET ok == Post(cand[t].sql, current_dialect, o)
            reached == PostReachesDeep(cand[t].sql, current_dialect)
            v == Verdict(ok, tries[t])
            trimmed == [cand[t] EXCEPT !.sql = Strip(@)]
            h == [hist[t] EXCEPT !.post_dialect = current_dialect,
                                 !.post_sql = cand[t].sql,
                                 !.post_ok = ok,
                                 !.deep = IF reached THEN o ELSE NotCalled,
                                 !.deep_query = IF reached THEN OriginalQuery(GetCurrentQuery)
                                                ELSE NoQuery,
                                 !.deep_calls = IF reached THEN @ + 1 ELSE @]
        IN  /\ cand' = [cand EXCEPT ![t] = trimmed]
            /\ IF v = "accepted"
               THEN /\ contract_successful' = TRUE
                    /\ contract_result' = trimmed
                    /\ pc' = [pc EXCEPT ![t] = "forward"]
                    /\ hist' = [hist EXCEPT ![t] = [h EXCEPT !.outcome = "accepted"]]
               ELSE IF v = "retry"
               THEN /\ pc' = [pc EXCEPT ![t] = "attempt"]
                    /\ hist' = [hist EXCEPT ![t] = h]
                    /\ UNCHANGED <<contract_successful, contract_result>>
               ELSE /\ contract_successful' = FALSE
                    /\ contract_result' = None
                    /\ pc' = [pc EXCEPT ![t] = "forward"]
                    /\ hist' = [hist EXCEPT ![t] = [h EXCEPT !.outcome = "exhausted"]]
    /\ UNCHANGED <<current_dialect, current_query, req, tries, ret>>

\* post(candidate), evaluated by the decorator after each generation attempt
Validate(t, outcomes) ==
    /\ pc[t] = "validate"
    /\ \E o \in outcomes :
        LET ok == Post(cand[t].sql, current_dialect, o)
            reached == PostReachesDeep(cand[t].sql, current_dialect)
            v == Verdict(ok, tries[t])
            h == [hist[t] EXCEPT !.post_dialect = current_dialect,
                                 !.post_sql = cand[t].sql,
                                 !.post_ok = ok,
                                 !.deep = IF reached THEN o ELSE NotCalled,
                                 !.deep_query = IF reached THEN OriginalQuery(GetCurrentQuery)
                                                ELSE NoQuery,
                                 !.deep_calls = IF reached THEN @ + 1 ELSE @]
        IN  IF v = "accepted"
            THEN /\ contract_successful' = TRUE
                 /\ contract_result' = cand[t]
                 /\ pc' = [pc EXCEPT ![t] = "forward"]
                 /\ hist' = [hist EXCEPT ![t] = [h EXCEPT !.outcome = "accepted"]]
            ELSE IF v = "retry"
            THEN /\ pc' = [pc EXCEPT ![t] = "attempt"]
                 /\ hist' = [hist EXCEPT ![t] = h]
                 /\ UNCHANGED <<contract_successful, contract_result>>
            ELSE /\ contract_successful' = FALSE
                 /\ contract_result' = None
                 /\ pc' = [pc EXCEPT ![t] = "forward"]
                 /\ hist' = [hist EXCEPT ![t] = [h EXCEPT !.outcome = "exhausted"]]
    /\ UNCHANGED <<current_dialect, current_query, req, cand, tries, ret>>

\* mutant of ForwardResult: the SQL text is returned trimmed
ForwardResult_Stripped(result) ==
    IF result = None THEN Sentinel ELSE [result EXCEPT !.sql = Strip(result.sql)]

\* what forward returns
ForwardResult(result) == IF result = None THEN Sentinel ELSE result

\* forward(input), which the decorator runs last, whether the contract held or not
Forward(t) ==
    /\ pc[t] = "forward"
    /\ current_dialect' = req[t].sql_dialect
    /\ current_query' = [set |-> TRUE, q |-> req[t].query]
    /\ ret' = [ret EXCEPT ![t] = ForwardResult(contract_result)]
    /\ pc' = [pc EXCEPT ![t] = "done"]
    /\ UNCHANGED <<contract_result, contract_successful, req, cand, tries, hist>>

\* the caller has its result; the invocation is over
Return(t) ==
    /\ pc[t] = "done"
    /\ pc' = [pc EXCEPT ![t] = "idle"]
    /\ req' = [req EXCEPT ![t] = NoReq]
    /\ cand' = [cand EXCEPT ![t] = None]
    /\ tries' = [tries EXCEPT ![t] = 0]
    /\ ret' = [ret EXCEPT ![t] = None]
    /\ hist' = [hist EXCEPT ![t] = NoHist]
    /\ UNCHANGED <<current_dialect, current_query, contract_result, contract_successful>>

\* sequential invocations on one instance
Init ==
    /\ GInit
    /\ v_sql = <<>> /\ v_dialect = "generic" /\ v_op = "none"
    /\ v_result = FALSE /\ v_deep = NotCalled
    /\ DIdle
    /\ SIdle
    /\ AIdle

Next ==
    \/ Call(1, Queries, SQLDialect) /\ UNCHANGED <<v_vars, d_vars, s_vars, a_vars>>
    \/ PreStep(1) /\ UNCHANGED <<v_vars, d_vars, s_vars, a_vars>>
    \/ Attempt(1, OracleAnswers) /\ UNCHANGED <<v_vars, d_vars, s_vars, a_vars>>
    \/ AttemptFails(1) /\ UNCHANGED <<v_vars, d_vars, s_vars, a_vars>>
    \/ Validate(1, DeepOutcomes) /\ UNCHANGED <<v_vars, d_vars, s_vars, a_vars>>
    \/ Forward(1) /\ UNCHANGED <<v_vars, d_vars, s_vars, a_vars>>
    \/ Return(1) /\ UNCHANGED <<v_vars, d_vars, s_vars, a_vars>>

Spec == Init /\ [][Next]_vars

-----------------------------------------------------------------------------
(* The validator harness: post and _validate_dialect_syntax applied to one input *)

VInit ==
    /\ GInit
    /\ v_sql \in SQLTexts
    /\ v_dialect \in SQLDialect
    /\ v_op = "none"
    /\ v_result = FALSE
    /\ v_deep = NotCalled
    /\ DIdle
    /\ SIdle
    /\ AIdle

\* post(SQLOutput(sql=v_sql)) on a generator whose current_dialect is v_dialect
RunPost ==
    /\ v_op = "none"
    /\ \E o \in HarnessOutcomes :
        /\ v_result' = Post(v_sql, v_dialect, o)
        /\ v_deep' = IF PostReachesDeep(v_sql, v_dialect) THEN o ELSE NotCalled
    /\ v_op' = "post"
    /\ UNCHANGED <<v_sql, v_dialect>>
    /\ UNCHANGED <<g_vars, d_vars, s_vars, a_vars>>

\* _validate_dialect_syntax(v_sql, v_dialect), called directly as the tests do
RunValidateDialectSyntax ==
    /\ v_op = "none"
    /\ \E o \in HarnessOutcomes :
        /\ v_result' = ValidateDialectSyntax(v_sql, v_dialect, o)
        /\ v_deep' = IF DialectSyntaxReachesDeep(v_sql, v_dialect) THEN o ELSE NotCalled
    /\ v_op' = "validate_dialect_syntax"
    /\ UNCHANGED <<v_sql, v_dialect>>
    /\ UNCHANGED <<g_vars, d_vars, s_vars, a_vars>>

VNext == RunPost \/ RunValidateDialectSyntax

SpecValidate == VInit /\ [][VNext]_vars

-----------------------------------------------------------------------------
(* Properties of the validation (specification SpecValidate) *)

\* the forbidden tokens the documentation lists for each dialect
ForbiddenTokens(d) ==
    IF d = "mysql" THEN
        {<<"T", "O", "P">>,
         <<"A", "U", "T", "O", "I", "N", "C", "R", "E", "M", "E", "N", "T">>}
    ELSE IF d = "postgresql" THEN
        {<<"T", "O", "P">>,
         <<"A", "U", "T", "O", "_", "I", "N", "C", "R", "E", "M", "E", "N", "T">>}
    ELSE IF d = "sqlite" THEN
        {<<"F", "U", "L", "L", " ", "O", "U", "T", "E", "R", " ", "J", "O", "I", "N">>,
         <<"T", "O", "P">>,
         <<"I", "L", "I", "K", "E">>,
         <<"I", "N", "T", "E", "R", "V", "A", "L">>,
         <<"S", "E", "R", "I", "A", "L">>}
    ELSE {}

\* the text contains, in any letter case, a forbidden token of the dialect
HasForbiddenToken(sql, d) == \E k \in ForbiddenTokens(d) : Contains(Upper(sql), k)

Balanced(sql) ==
    /\ Count(sql, "(") = Count(sql, ")")
    /\ Count(sql, "'") % 2 = 0
    /\ Count(sql, "\"") % 2 = 0

StartsWithSelect(sql) == StartsWith(Upper(Strip(sql)), PatSelect)

\* C1 (as claimed): every SQL text that contains, in any letter case and at any
\* position, a forbidden token of the dialect is rejected by the dialect validation
\* (_validate_dialect_syntax, and post under that dialect).
C1_ForbiddenTokenRejected ==
    (v_op # "none" /\ HasForbiddenToken(v_sql, v_dialect)) => v_result = FALSE

\* C2 (as claimed): post rejects every SQL text that does not begin with SELECT
\* after trimming and upper-casing.
C2_NonSelectRejected ==
    (v_op = "post" /\ ~StartsWithSelect(v_sql)) => v_result = FALSE

\* C3: post rejects every SQL text whose parentheses, single quotes or double
\* quotes are unbalanced, or that is empty after trimming, whatever the dialect and
\* whatever the deep check would answer (the deep check is not even consulted).
C3_UnbalancedRejected ==
    (v_op = "post" /\ (~Balanced(v_sql) \/ Strip(v_sql) = <<>>))
        => (v_result = FALSE /\ v_deep = NotCalled)

\* C3 witness: post has rejected a SELECT with an odd number of double quotes that
\* has no other defect
C3_Witness ==
    /\ v_op = "post"
    /\ StartsWithSelect(v_sql)
    /\ Count(v_sql, "\"") % 2 = 1
    /\ Count(v_sql, "(") = Count(v_sql, ")")
    /\ Count(v_sql, "'") % 2 = 0
    /\ ~HasForbiddenToken(v_sql, v_dialect)
    /\ v_result = FALSE


-----------------------------------------------------------------------------
(* Two invocations running concurrently on one SemanticSQLGenerator instance.
   The oracle calls are the points where a thread is suspended; current_dialect,
   _current_query and contract_result are fields of the shared instance. *)

ConcQueries == {<<"a">>, <<" ", "b">>}
ConcDialects == {"mysql", "sqlite"}
ConcAnswers == {a \in OracleAnswers :
                  /\ a.dialect_used = Omitted
                  /\ a.sql \in {<<"S", "E", "L", "E", "C", "T", " ", "(">>,
                                <<" ", " ", "s", "e", "l", "e", "c", "t", " ", "1", "\n">>}}
ConcOutcomes == {TextOutcome(<<"Y", "E", "S">>), TextOutcome(<<"N", "O">>)}

ConcNext ==
    \E t \in Threads :
        \/ Call(t, ConcQueries, ConcDialects) /\ UNCHANGED <<v_vars, d_vars, s_vars, a_vars>>
        \/ PreStep(t) /\ UNCHANGED <<v_vars, d_vars, s_vars, a_vars>>
        \/ Attempt(t, ConcAnswers) /\ UNCHANGED <<v_vars, d_vars, s_vars, a_vars>>
        \/ AttemptFails(t) /\ UNCHANGED <<v_vars, d_vars, s_vars, a_vars>>
        \/ Validate(t, ConcOutcomes) /\ UNCHANGED <<v_vars, d_vars, s_vars, a_vars>>
        \/ Forward(t) /\ UNCHANGED <<v_vars, d_vars, s_vars, a_vars>>
        \/ Return(t) /\ UNCHANGED <<v_vars, d_vars, s_vars, a_vars>>

SpecConcurrent == Init /\ [][ConcNext]_vars

-----------------------------------------------------------------------------
(* One SQLInterface handle on a database file, used inside and outside with-scopes *)

DNext ==
    \/ Enter /\ UNCHANGED <<v_vars, g_vars, s_vars, a_vars>>
    \/ EnterFails /\ UNCHANGED <<v_vars, g_vars, s_vars, a_vars>>
    \/ Exit /\ UNCHANGED <<v_vars, g_vars, s_vars, a_vars>>
    \/ BodyRaises /\ UNCHANGED <<v_vars, g_vars, s_vars, a_vars>>
    \/ GetTableNames /\ UNCHANGED <<v_vars, g_vars, s_vars, a_vars>>
    \/ GetTableSchema(TableNames) /\ UNCHANGED <<v_vars, g_vars, s_vars, a_vars>>
    \/ GetColumnsInfo(TableNames) /\ UNCHANGED <<v_vars, g_vars, s_vars, a_vars>>
    \/ ListTablesWithInfo /\ UNCHANGED <<v_vars, g_vars, s_vars, a_vars>>
    \/ ExecuteQuery(Statements) /\ UNCHANGED <<v_vars, g_vars, s_vars, a_vars>>

DBInit ==
    /\ GInit
    /\ v_sql = <<>> /\ v_dialect = "generic" /\ v_op = "none"
    /\ v_result = FALSE /\ v_deep = NotCalled
    /\ DInit
    /\ SIdle
    /\ AIdle

SpecDatabase == DBInit /\ [][DNext]_vars

-----------------------------------------------------------------------------
(* One SQLInterface handle driven by connect() and disconnect() calls *)

\* connect(): a new sqlite3 connection is opened and stored in self.connection; a
\* connection the handle held before is neither closed nor kept
Connect ==
    /\ d_pc = "outside"
    /\ conn_count < MaxScopes
    /\ conn_count' = conn_count + 1
    /\ connection' = conn_count + 1
    /\ open_conns' = open_conns \cup {conn_count + 1}
    /\ d_exc' = "none"
    /\ UNCHANGED <<store, d_pc, d_scope, d_last, d_rep>>

\* connect() when sqlite3.connect raises: self.connection keeps its value
ConnectFails ==
    /\ d_pc = "outside"
    /\ conn_count < MaxScopes
    /\ d_exc' = "OperationalError"
    /\ UNCHANGED <<store, connection, open_conns, conn_count, d_pc, d_scope, d_last, d_rep>>

\* a call of disconnect()
DisconnectCall ==
    /\ d_pc = "outside"
    /\ LET d == Disconnect(connection, open_conns)
       IN  /\ connection' = d.connection
           /\ open_conns' = d.open
    /\ d_exc' = "none"
    /\ UNCHANGED <<store, conn_count, d_pc, d_scope, d_last, d_rep>>

\* the Python runtime finalises a connection object that connect() replaced: when it
\* does so is not fixed, and the finaliser closes the connection
Finalize ==
    /\ \E c \in open_conns \ {connection} : open_conns' = open_conns \ {c}
    /\ UNCHANGED <<store, connection, conn_count, d_pc, d_exc, d_scope, d_last, d_rep>>

\* the arguments of the calls made between connect() and disconnect()
ConnNames == {<<"t">>, <<"n", "o", "p", "e">>}
ConnStatements == {SelectAllPrefix \o <<"t">>, DropPrefix \o <<"t">>}

ConnNext ==
    \/ Connect /\ UNCHANGED <<v_vars, g_vars, s_vars, a_vars>>
    \/ ConnectFails /\ UNCHANGED <<v_vars, g_vars, s_vars, a_vars>>
    \/ DisconnectCall /\ UNCHANGED <<v_vars, g_vars, s_vars, a_vars>>
    \/ Finalize /\ UNCHANGED <<v_vars, g_vars, s_vars, a_vars>>
    \/ GetTableNames /\ UNCHANGED <<v_vars, g_vars, s_vars, a_vars>>
    \/ GetTableSchema(ConnNames) /\ UNCHANGED <<v_vars, g_vars, s_vars, a_vars>>
    \/ GetColumnsInfo(ConnNames) /\ UNCHANGED <<v_vars, g_vars, s_vars, a_vars>>
    \/ ListTablesWithInfo /\ UNCHANGED <<v_vars, g_vars, s_vars, a_vars>>
    \/ ExecuteQuery(ConnStatements) /\ UNCHANGED <<v_vars, g_vars, s_vars, a_vars>>

SpecConnect == DBInit /\ [][ConnNext]_vars

-----------------------------------------------------------------------------
(* sql_generator.py: SQLGeneratorService, whose calls share one generator *)

\* mutant of TableSchemaText: the two lines are joined by a newline alone
TableSchemaText_NoIndent(table_name, columns_info) ==
    <<"T", "a", "b", "l", "e", ":", " ">> \o table_name \o <<"\n", "C", "o", "l", "u", "m", "n", "s", ":", " ">> \o columns_info

\* f"Table: {table_name}\n   Columns: {columns_info}"
TableSchemaText(table_name, columns_info) ==
    <<"T", "a", "b", "l", "e", ":", " ">> \o table_name \o <<"\n", " ", " ", " ", "C", "o", "l", "u", "m", "n", "s", ":", " ">> \o columns_info

\* the arguments of the service's callers
SvcQueries == {<<"a">>, <<" ">>}
SvcTables == {<<"o", "r", "d", "e", "r", "s">>, <<"a", " ", "b">>}
SvcColumns == {<<"i", "d", " ", "(", "I", "N", "T", ")", ",", " ", "t", "o", "t", "a", "l", " ", "(", "D", "E", "C", "I", "M", "A", "L", ")">>, <<>>}
SvcSchemas == {<<"T", "a", "b", "l", "e", ":", " ", "t">>, <<>>}

\* generate_sql(natural_query, table_schema) up to the call of the generator:
\* QueryInput(query=natural_query, table_schema=table_schema) has the default dialect
GenerateSql(natural_query, table_schema) ==
    /\ Call(1, {natural_query}, {DefaultDialect})
    /\ s_delegate' = [count |-> s_delegate.count + 1, natural_query |-> natural_query,
                      table_schema |-> table_schema]

\* a caller calls generate_sql
SvcGenerateSql ==
    /\ s_pc = "idle"
    /\ s_delegate.count = 0
    /\ \E q \in SvcQueries, ts \in SvcSchemas :
        /\ GenerateSql(q, ts)
        /\ s_req' = [entry |-> "generate_sql", natural_query |-> q, table_name |-> <<>>,
                     columns_info |-> <<>>, table_schema |-> ts]
    /\ s_pc' = "generating"
    /\ s_ret' = <<>>

\* a caller calls generate_sql_for_table, which formats the schema and delegates
SvcGenerateSqlForTable ==
    /\ s_pc = "idle"
    /\ s_delegate.count = 0
    /\ \E q \in SvcQueries, t \in SvcTables, c \in SvcColumns :
        /\ GenerateSql(q, TableSchemaText(t, c))
        /\ s_req' = [entry |-> "generate_sql_for_table", natural_query |-> q,
                     table_name |-> t, columns_info |-> c, table_schema |-> <<>>]
    /\ s_pc' = "generating"
    /\ s_ret' = <<>>

\* generate_sql returns result.sql (and generate_sql_for_table returns that)
SvcReturn ==
    /\ s_pc = "generating"
    /\ pc[1] = "done"
    /\ s_ret' = ret[1].sql
    /\ s_pc' = "returned"
    /\ UNCHANGED <<s_req, s_delegate>>

\* the caller has the SQL string; the service is free for its next call
SvcDone ==
    /\ s_pc = "returned"
    /\ Return(1)
    /\ s_pc' = "idle"
    /\ s_req' = NoSvcReq
    /\ s_delegate' = NoDelegate
    /\ s_ret' = <<>>

SvcNext ==
    \/ SvcGenerateSql /\ UNCHANGED <<v_vars, d_vars, a_vars>>
    \/ SvcGenerateSqlForTable /\ UNCHANGED <<v_vars, d_vars, a_vars>>
    \/ PreStep(1) /\ UNCHANGED <<v_vars, d_vars, a_vars, s_vars>>
    \/ Attempt(1, ConcAnswers) /\ UNCHANGED <<v_vars, d_vars, a_vars, s_vars>>
    \/ AttemptFails(1) /\ UNCHANGED <<v_vars, d_vars, a_vars, s_vars>>
    \/ Validate(1, ConcOutcomes) /\ UNCHANGED <<v_vars, d_vars, a_vars, s_vars>>
    \/ Forward(1) /\ UNCHANGED <<v_vars, d_vars, a_vars, s_vars>>
    \/ SvcReturn /\ UNCHANGED <<v_vars, d_vars, a_vars, g_vars>>
    \/ SvcDone /\ UNCHANGED <<v_vars, d_vars, a_vars>>

SvcInit ==
    /\ GInit
    /\ v_sql = <<>> /\ v_dialect = "generic" /\ v_op = "none"
    /\ v_result = FALSE /\ v_deep = NotCalled
    /\ DIdle
    /\ SIdle
    /\ AIdle

SpecService == SvcInit /\ [][SvcNext]_vars

-----------------------------------------------------------------------------
(* api.py: /upload-db and /query-db/{db_id}.  A response is the dict the handler
   returns, a record whose fields are the dict's keys. *)

\* str.replace(old, new): every non-overlapping occurrence, from the left
RECURSIVE Replace(_, _, _)
Replace(s, old, new) ==
    IF old = <<>>
    THEN IF s = <<>> THEN new ELSE new \o <<Head(s)>> \o Replace(Tail(s), old, new)
    ELSE IF Len(s) < Len(old) THEN s
    ELSE IF StartsWith(s, old) THEN new \o Replace(Drop(s, Len(old)), old, new)
    ELSE <<Head(s)>> \o Replace(Tail(s), old, new)

\* result.sql.replace(request.table_name, f'"{request.table_name}"')
SafeSql(sql, table_name) == Replace(sql, table_name, <<DQuote>> \o table_name \o <<DQuote>>)

\* results[:10]
FirstTen(results) == SubSeq(results, 1, IF Len(results) < 10 THEN Len(results) ELSE 10)

\* {table: db.get_table_schema(table) for table in tables}, inside the scope
RECURSIVE SchemaInfo(_, _)
SchemaInfo(st, tables) ==
    IF tables = <<>> THEN Returns(<<>>)
    ELSE LET r == GetTableSchemaResult(1, st, Head(tables))
             rest == SchemaInfo(st, Tail(tables))
         IN  IF r.kind = "raise" THEN r
             ELSE IF rest.kind = "raise" THEN rest
             ELSE Returns(<<<<Head(tables), r.value>>>> \o rest.value)

\* upload_database: the entry it stores in databases, or the HTTPException it raises
UploadDatabase(st) ==
    LET tables == GetTableNamesResult(1, st).value
        info == SchemaInfo(st, tables)
    IN  IF info.kind = "raise" THEN Raises("HTTPException")
        ELSE Returns([tables |-> tables, schema_info |-> info.value])

\* x in list
InList(x, l) == \E i \in 1..Len(l) : l[i] = x

\* {"sql": result.sql, "success": True}
ResponseData(sql) == [sql |-> sql, success |-> TRUE]

\* {"sql": "", "success": False, "error": str(e)}
ErrorResponse(e) == [sql |-> <<>>, success |-> FALSE, error |-> e]

\* mutant of ScopeResponse: the rows read before the failure are returned
ScopeResponse_KeepsRows(response_data, scope, results) ==
    [sql |-> response_data.sql, success |-> TRUE, results |-> FirstTen(results)]

\* what query_database returns once the with-scope is left: through the except
\* clause if the scope was left by an exception, else response_data with its rows
ScopeResponse(response_data, scope, results) ==
    IF scope.left = "exception" THEN ErrorResponse(scope.raised)
    ELSE [sql |-> response_data.sql, success |-> TRUE, results |-> FirstTen(results)]

\* the requests of the handler's callers, and the generation oracle's answers
ApiQueries == {<<"a">>, <<>>}
ApiTables == {<<"t">>, <<"a", " ", "b">>, <<"n", "o", "p", "e">>}
ApiSQL ==
    {<<"S", "E", "L", "E", "C", "T", " ", "*", " ", "F", "R", "O", "M", " ", "t">>,
     <<"S", "E", "L", "E", "C", "T", " ", "*", " ", "F", "R", "O", "M", " ", "a", " ", "b">>,
     <<"S", "E", "L", "E", "C", "T", " ", "*", " ", "F", "R", "O", "M", " ", "n", "o", "p", "e">>,
     <<"D", "R", "O", "P", " ", "T", "A", "B", "L", "E", " ", "I", "F", " ", "E", "X", "I", "S", "T", "S", " ", "t">>,
     <<"S", "E", "L", "E", "C", "T", " ", "*", " ", "F", "R", "O", "M", " ", "\"", "t", "\"">>,
     <<"s", "e", "l", "e", "c", "t", " ", "*", " ", "f", "r", "o", "m", " ", "t">>}
ApiAnswers ==
    {[sql |-> s, is_valid |-> Omitted, validation_notes |-> Omitted,
      dialect_used |-> Omitted] : s \in ApiSQL}

\* query_database up to the generator's construction: the table is looked up in
\* the uploaded entry, and generator = SemanticSQLGenerator() is a new instance
ApiQuery ==
    /\ a_pc \in {"idle", "responded"}
    /\ conn_count < MaxScopes
    /\ \E q \in ApiQueries, t \in ApiTables, e \in BOOLEAN :
        /\ a_req' = [query |-> q, table_name |-> t, execute |-> e]
        /\ IF InList(t, a_db.tables)
           THEN /\ a_pc' = "generate"
                /\ a_resp' = NoResponse
                /\ a_obs' = [NoObs EXCEPT !.generators = 1]
                /\ current_dialect' = "generic"
                /\ current_query' = [set |-> FALSE, q |-> <<>>]
                /\ contract_result' = None
                /\ contract_successful' = FALSE
                /\ pc' = [pc EXCEPT ![1] = "idle"]
                /\ req' = [req EXCEPT ![1] = NoReq]
                /\ cand' = [cand EXCEPT ![1] = None]
                /\ tries' = [tries EXCEPT ![1] = 0]
                /\ ret' = [ret EXCEPT ![1] = None]
                /\ hist' = [hist EXCEPT ![1] = NoHist]
           ELSE /\ a_pc' = "responded"
                /\ a_resp' = ErrorResponse("HTTPException")
                /\ a_obs' = NoObs
                /\ UNCHANGED g_vars
    /\ UNCHANGED a_db

\* result = generator(input=query_input), with sql_dialect=SQLDialect.SQLITE
ApiGenerate ==
    /\ a_pc = "generate"
    /\ Call(1, {a_req.query}, {"sqlite"})
    /\ a_pc' = "contract"
    /\ UNCHANGED <<a_req, a_resp, a_obs, a_db>>

\* the generator returned: response_data is built, and returned if no execution
\* was requested
ApiGenerated ==
    /\ a_pc = "contract"
    /\ pc[1] = "done"
    /\ IF a_req.execute
       THEN /\ a_pc' = "enter"
            /\ a_resp' = NoResponse
       ELSE /\ a_pc' = "responded"
            /\ a_resp' = ResponseData(ret[1].sql)
    /\ UNCHANGED <<a_req, a_obs, a_db>>

\* with SQLInterface(db_info["path"]) as db
ApiEnter ==
    /\ a_pc = "enter"
    /\ Enter
    /\ a_pc' = "execute"
    /\ UNCHANGED <<a_req, a_resp, a_obs, a_db>>

\* the database file cannot be opened: the except clause answers
ApiEnterFails ==
    /\ a_pc = "enter"
    /\ EnterFails
    /\ a_pc' = "responded"
    /\ a_resp' = ErrorResponse("OperationalError")
    /\ UNCHANGED <<a_req, a_obs, a_db>>

\* safe_sql = ...; results = db.execute_query(safe_sql)
ApiExecute ==
    /\ a_pc = "execute"
    /\ ExecuteQuery({SafeSql(ret[1].sql, a_req.table_name)})
    /\ a_obs' = [a_obs EXCEPT !.executions = @ + 1,
                              !.gen_calls = hist[1].gen_calls,
                              !.safe_sql = SafeSql(ret[1].sql, a_req.table_name)]
    /\ a_pc' = "exit"
    /\ UNCHANGED <<a_req, a_resp, a_db>>

\* the with-scope is left and the handler returns
ApiExit ==
    /\ a_pc = "exit"
    /\ Exit
    /\ a_pc' = "responded"
    /\ a_resp' = ScopeResponse(ResponseData(ret[1].sql),
                               [left |-> IF d_pc = "raising" THEN "exception" ELSE "normal",
                                raised |-> d_exc],
                               d_last.outcome.value)
    /\ UNCHANGED <<a_req, a_obs, a_db>>

ApiNext ==
    \/ ApiQuery /\ UNCHANGED <<v_vars, d_vars, s_vars>>
    \/ ApiGenerate /\ UNCHANGED <<v_vars, d_vars, s_vars>>
    \/ PreStep(1) /\ UNCHANGED <<v_vars, d_vars, s_vars, a_vars>>
    \/ Attempt(1, ApiAnswers) /\ UNCHANGED <<v_vars, d_vars, s_vars, a_vars>>
    \/ AttemptFails(1) /\ UNCHANGED <<v_vars, d_vars, s_vars, a_vars>>
    \/ Validate(1, ConcOutcomes) /\ UNCHANGED <<v_vars, d_vars, s_vars, a_vars>>
    \/ Forward(1) /\ UNCHANGED <<v_vars, d_vars, s_vars, a_vars>>
    \/ ApiGenerated /\ UNCHANGED <<v_vars, g_vars, d_vars, s_vars>>
    \/ ApiEnter /\ UNCHANGED <<v_vars, g_vars, s_vars>>
    \/ ApiEnterFails /\ UNCHANGED <<v_vars, g_vars, s_vars>>
    \/ ApiExecute /\ UNCHANGED <<v_vars, g_vars, s_vars>>
    \/ ApiExit /\ UNCHANGED <<v_vars, g_vars, s_vars>>

\* a database has been uploaded and registered
ApiInit ==
    /\ GInit
    /\ v_sql = <<>> /\ v_dialect = "generic" /\ v_op = "none"
    /\ v_result = FALSE /\ v_deep = NotCalled
    /\ DInit
    /\ UploadDatabase(store).kind = "return"
    /\ SIdle
    /\ a_pc = "idle"
    /\ a_req = NoApiReq
    /\ a_resp = NoResponse
    /\ a_obs = NoObs
    /\ a_db = UploadDatabase(store).value

SpecApi == ApiInit /\ [][ApiNext]_vars

-----------------------------------------------------------------------------
(* Properties of the contract (specification Spec, and SpecConcurrent for C9) *)

\* the query has at least one character that is not whitespace
HasNonWhitespace(q) == \E i \in 1..Len(q) : q[i] \notin Whitespace

\* the deep check gave an answer that _llm_validate_dialect takes for a yes
DeepAnswersYes(o) ==
    \/ o.kind \in {"raise", "nonstring"}
    \/ o.kind = "text" /\ StartsWith(Upper(Strip(o.text)), PatYes)

\* C4 (as claimed): an invocation whose query is empty or whitespace-only ends with
\* the precondition failure (the caller is handed no result), with no call of the
\* generation oracle or the deep check and no retry; a query with a non-whitespace
\* character passes pre.
C4_PreFailureSurfaced ==
    \A t \in Threads :
        /\ (pc[t] = "done" /\ ~HasNonWhitespace(req[t].query)) =>
               /\ hist[t].gen_calls = 0 /\ hist[t].deep_calls = 0 /\ tries[t] = 0
               /\ ret[t] = None
        /\ (pc[t] \notin {"idle", "pre"} /\ HasNonWhitespace(req[t].query)) =>
               hist[t].outcome # "pre_failed"

\* C5: the result an invocation hands back passes post's structural checks for the
\* request's dialect; it is either the candidate post accepted last, under the
\* request's dialect, or forward's fallback: a candidate post rejected is never
\* returned.
C5_ReturnedResultPassedPost ==
    \A t \in Threads :
        pc[t] = "done" =>
            /\ PostBasicChecks(ret[t].sql)
            /\ ~CheckBasicDialectIssues(Upper(Strip(ret[t].sql)), req[t].sql_dialect)
            /\ hist[t].outcome = "accepted" =>
                   /\ ret[t] = cand[t]
                   /\ hist[t].post_sql = ret[t].sql
                   /\ hist[t].post_ok
                   /\ hist[t].post_dialect = req[t].sql_dialect
                   /\ DeepAnswersYes(hist[t].deep)
            /\ hist[t].outcome # "accepted" => ret[t] = Sentinel

\* C5 witness: an invocation returned the candidate accepted at its second attempt,
\* after post had rejected the first one
C5_Witness ==
    \E t \in Threads :
        /\ pc[t] = "done" /\ hist[t].outcome = "accepted"
        /\ tries[t] = 2 /\ ret[t] = cand[t]

\* C7 (as claimed): the fallback SELECT 1; is returned only when the oracle produced
\* no candidate at all, and an invocation whose retry budget is spent on invalid
\* candidates ends with an error instead of a result.
C7_SentinelOnlyWithoutCandidate ==
    \A t \in Threads :
        pc[t] = "done" =>
            /\ ret[t] = Sentinel =>
                   (hist[t].gen_calls = 0 \/ hist[t].outcome = "oracle_failed")
            /\ hist[t].outcome = "exhausted" => ret[t] = None

\* C8 (as claimed): the result of a successful invocation has dialect_used equal to
\* the request's dialect.
C8_DialectUsedForced ==
    \A t \in Threads :
        (pc[t] = "done" /\ hist[t].outcome = "accepted") =>
            ret[t].dialect_used = req[t].sql_dialect

\* C9 (as claimed): with two invocations running concurrently on one instance, every
\* prompt an invocation renders and every post validation it runs uses the dialect
\* of its own request.
C9_NoContextLeak ==
    \A t \in Threads :
        /\ hist[t].prompt_dialect \in {"none", req[t].sql_dialect}
        /\ hist[t].post_dialect \in {"none", req[t].sql_dialect}

\* the candidate post validated last starts with SELECT, is balanced and contains no
\* forbidden token of the request's dialect
StructurallyValid(t) ==
    /\ hist[t].post_dialect # "none"
    /\ StartsWithSelect(hist[t].post_sql)
    /\ Balanced(hist[t].post_sql)
    /\ ~HasForbiddenToken(hist[t].post_sql, req[t].sql_dialect)

C11_DeepCheckFailsOpen ==
    \A t \in Threads :
        hist[t].deep = RaiseOutcome =>
            /\ hist[t].post_ok
            /\ hist[t].outcome = "accepted"
            /\ pc[t] \in {"forward", "done"}
            /\ hist[t].gen_calls = tries[t]
            /\ hist[t].post_sql = cand[t].sql
            /\ pc[t] = "forward" => (contract_successful /\ contract_result = cand[t])
            /\ pc[t] = "done" => ret[t] = cand[t]

\* C11 witness: an invocation returned, after a single generation attempt, a
\* candidate whose deep check raised
C11_Witness ==
    \E t \in Threads :
        /\ pc[t] = "done" /\ hist[t].deep = RaiseOutcome
        /\ hist[t].gen_calls = 1 /\ hist[t].deep_calls = 1
        /\ ret[t] = cand[t]

-----------------------------------------------------------------------------
(* Properties of SQLInterface (specification SpecDatabase) *)

\* C12: inside a with-scope the handle holds an open connection; once the scope is
\* left, normally or by an exception of the body, connection is None and no
\* connection is open; an exception of the body reaches the caller unchanged.
C12_ScopeClosesConnection ==
    /\ d_pc \in {"inside", "raising"} =>
           (connection # NoConnection /\ connection \in open_conns)
    /\ d_pc = "outside" => (connection = NoConnection /\ open_conns = {})
    /\ d_scope.left = "exception" => (d_exc # "none" /\ d_exc = d_scope.raised)
    /\ d_scope.left = "normal" => d_exc = "none"

\* C12 witness: the second scope on the handle was left by an exception of its body
C12_Witness ==
    /\ d_pc = "outside" /\ conn_count = 2
    /\ d_scope = [left |-> "exception", raised |-> "BodyError"]
    /\ d_exc = "BodyError"

\* C13 (as claimed): execute_query returns one map per row of the result set, in
\* row order, and every map has one entry per column of the result set, in column
\* order, with that column's value; no row is left out.
C13_OneEntryPerColumn ==
    (d_last.op = "execute_query" /\ d_last.outcome.kind = "return") =>
        LET r == StoreExecute(d_last.store, d_last.arg)
            v == d_last.outcome.value
        IN  /\ Len(v) = Len(r.rows)
            /\ \A i \in 1..Len(v) :
                /\ Len(v[i]) = Len(r.columns)
                /\ \A j \in 1..Len(v[i]) : v[i][j] = <<r.columns[j], r.rows[i][j]>>

\* C15 (as claimed): on a connected handle get_table_schema and get_columns_info
\* raise the table-not-found error for every name that has no columns in the store,
\* and return text for every name that has.
C15_NotFoundIffNoColumns ==
    (d_last.op \in {"get_table_schema", "get_columns_info"} /\ d_last.queries # <<>>) =>
        IF HasTable(d_last.store, d_last.arg)
        THEN d_last.outcome.kind = "return"
        ELSE d_last.outcome = Raises("ValueError")

\* the item of one column as documented: NOT NULL exactly when declared not-null
DocumentedItem(col) ==
    col[2] \o <<" ", "(">> \o col[3]
    \o (IF col[6] # 0 THEN <<",", " ", "P", "R", "I", "M", "A", "R", "Y", " ", "K", "E", "Y">> ELSE <<>>)
    \o (IF col[4] # 0 THEN <<",", " ", "N", "O", "T", " ", "N", "U", "L", "L">> ELSE <<>>)
    \o <<")">>

\* the item of one column with NOT NULL only for a column outside the primary key
AmendedItem(col) ==
    col[2] \o <<" ", "(">> \o col[3]
    \o (IF col[6] # 0 THEN <<",", " ", "P", "R", "I", "M", "A", "R", "Y", " ", "K", "E", "Y">> ELSE <<>>)
    \o (IF col[4] # 0 /\ col[6] = 0 THEN <<",", " ", "N", "O", "T", " ", "N", "U", "L", "L">> ELSE <<>>)
    \o <<")">>

\* the columns the store reported to the last description
ReportedColumns == StoreExecute(d_last.store, d_last.queries[1].text).rows

\* C16 (as claimed): the schema text is Table: <name>, then Columns: and one item
\* per reported column, in order, joined by ", ", each item <name> (<type>, then
\* ", PRIMARY KEY" iff the column is in the primary key, then ", NOT NULL" iff the
\* column is declared not-null, then ")".
C16_SchemaTextAsDocumented ==
    /\ (d_last.op = "get_table_schema" /\ d_last.outcome.kind = "return") =>
           d_last.outcome.value =
               <<"T", "a", "b", "l", "e", ":", " ">> \o d_last.arg \o <<"\n", " ", " ", " ", "C", "o", "l", "u", "m", "n", "s", ":", " ">>
               \o Join(<<",", " ">>, [i \in 1..Len(ReportedColumns) |-> DocumentedItem(ReportedColumns[i])])
    /\ (d_last.op = "get_columns_info" /\ d_last.outcome.kind = "return") =>
           d_last.outcome.value =
               Join(<<",", " ">>, [i \in 1..Len(ReportedColumns) |-> DocumentedItem(ReportedColumns[i])])

\* C16 (amended): the same text, except that ", NOT NULL" is written iff the column
\* is declared not-null and is not in the primary key.
C16_SchemaTextNotNullOutsideKey ==
    /\ (d_last.op = "get_table_schema" /\ d_last.outcome.kind = "return") =>
           d_last.outcome.value =
               <<"T", "a", "b", "l", "e", ":", " ">> \o d_last.arg \o <<"\n", " ", " ", " ", "C", "o", "l", "u", "m", "n", "s", ":", " ">>
               \o Join(<<",", " ">>, [i \in 1..Len(ReportedColumns) |-> AmendedItem(ReportedColumns[i])])
    /\ (d_last.op = "get_columns_info" /\ d_last.outcome.kind = "return") =>
           d_last.outcome.value =
               Join(<<",", " ">>, [i \in 1..Len(ReportedColumns) |-> AmendedItem(ReportedColumns[i])])

\* C16 witness: the table whose only column is a not-null primary key was described
C16_Witness ==
    /\ d_last.op = "get_table_schema"
    /\ d_last.arg = <<"a", " ", "b">>
    /\ d_last.outcome = Returns(<<"T", "a", "b", "l", "e", ":", " ", "a", " ", "b", "\n", " ", " ", " ", "C", "o", "l", "u", "m", "n", "s", ":", " ", "i", "d", " ", "(", "I", "N", "T", ",", " ", "P", "R", "I", "M", "A", "R", "Y", " ", "K", "E", "Y", ")">>)

C19_NameQuotedInMetadataQueries ==
    \A k \in 1..Len(d_last.queries) :
        LET q == d_last.queries[k]
            tail == Drop(q.text, Len(q.prefix))
            id == ScanIdentifier(tail)
        IN  /\ StartsWith(q.text, q.prefix)
            /\ tail # <<>> /\ Head(tail) = DQuote
            /\ id.ok /\ id.name = q.name /\ id.rest = q.suffix

\* C20 (as claimed): on a connected handle list_tables_with_info returns one entry
\* per table name of get_table_names and no other key, with column_count equal to
\* the number of names in columns and row_count equal to the table's row count.
C20_OneEntryPerTable ==
    (d_last.op = "list_tables_with_info" /\ d_last.outcome.error # "RuntimeError") =>
        LET v == d_last.outcome.value
            st == d_last.store
        IN  /\ d_last.outcome.kind = "return"
            /\ Len(v) = Len(st)
            /\ \A i \in 1..Len(v) :
                /\ v[i][1] = st[i].name
                /\ v[i][2].column_count = Len(v[i][2].columns)
                /\ v[i][2].row_count = Len(st[i].rows)

-----------------------------------------------------------------------------
(* Properties of SQLGeneratorService (specification SpecService) *)

\* the schema text the claim spells out: `Table: <t>`, newline, three spaces,
\* `Columns: <c>`
SpelledSchemaText(t, c) ==
    <<"T", "a", "b", "l", "e", ":", " ">> \o t \o <<"\n">> \o <<" ", " ", " ">>
        \o <<"C", "o", "l", "u", "m", "n", "s", ":", " ">> \o c

\* C18: generate_sql_for_table(q, t, c) delegates exactly once to generate_sql, with
\* the same q and the schema text `Table: <t>`, newline, three spaces, `Columns: <c>`,
\* and returns the delegate's sql string unchanged; generate_sql returns the sql
\* field of the contract's result (the candidate the contract accepted, when it
\* accepted one).
C18_ForTableDelegatesOnce ==
    /\ s_pc \in {"generating", "returned"} =>
          /\ s_delegate.count = 1
          /\ s_delegate.natural_query = s_req.natural_query
          /\ pc[1] # "idle" /\ req[1].query = s_req.natural_query
          /\ s_req.entry = "generate_sql_for_table" =>
                s_delegate.table_schema = SpelledSchemaText(s_req.table_name, s_req.columns_info)
          /\ s_req.entry = "generate_sql" => s_delegate.table_schema = s_req.table_schema
    /\ s_pc = "returned" =>
          /\ pc[1] = "done"
          /\ s_ret = ret[1].sql
          /\ s_ret = ForwardResult(contract_result).sql
          /\ hist[1].outcome = "accepted" => s_ret = cand[1].sql

\* generate_sql_for_table has returned the SQL of a candidate the contract accepted,
\* for a table name with a space in it
C18_Witness ==
    /\ s_pc = "returned"
    /\ s_req.entry = "generate_sql_for_table"
    /\ s_req.table_name = <<"a", " ", "b">>
    /\ s_req.columns_info # <<>>
    /\ hist[1].outcome = "accepted"
    /\ s_ret = cand[1].sql
    /\ s_ret # SentinelSQL

-----------------------------------------------------------------------------
(* Properties of the /query-db handler (specification SpecApi) *)

\* C14: a statement is executed at most once per request: when the store rejects it
\* the error reaches the caller, no partial rows are returned, and neither the
\* execution nor the generation is retried.
C14_ExecutionNotRetried ==
    /\ a_obs.executions <= 1
    /\ a_obs.generators <= 1
    /\ a_obs.executions = 1 =>
          /\ a_pc \in {"exit", "responded"}
          /\ pc[1] = "done"
          /\ hist[1].gen_calls = a_obs.gen_calls
          /\ d_last.op = "execute_query" /\ d_last.arg = a_obs.safe_sql
    /\ (a_pc = "responded" /\ a_obs.executions = 1 /\ d_last.outcome.kind = "raise") =>
          /\ a_resp.success = FALSE
          /\ a_resp.error = d_last.outcome.error
          /\ "results" \notin DOMAIN a_resp
          /\ a_resp.sql = <<>>
          /\ d_last.outcome.value = <<>>
          /\ d_scope.left = "exception"

\* the store rejected the statement of a request (a missing table) and the handler
\* answered with the error, after one generation call and one execution
C14_Witness ==
    /\ a_pc = "responded"
    /\ a_obs.executions = 1
    /\ d_last.outcome.error = "OperationalError"
    /\ a_obs.safe_sql = <<"S", "E", "L", "E", "C", "T", " ", "*", " ", "F", "R", "O", "M", " ", "n", "o", "p", "e">>
    /\ hist[1].gen_calls = 1
    /\ a_resp.success = FALSE
    /\ a_resp.error = "OperationalError"

-----------------------------------------------------------------------------
(* Properties of the validation inside the contract (specification Spec) *)

\* the candidate post validated last passes the fast dialect check of the code
PassedFastCheck(t) ==
    ~CheckBasicDialectIssues(Upper(Strip(hist[t].post_sql)), hist[t].post_dialect)

\* C21: validation runs its steps in order and stops at the first failure: the
\* deep-check oracle is invoked only for a candidate that already passed the
\* non-empty, balance and forbidden-token checks, only after the generation oracle
\* has produced that candidate, and at most once per validated candidate.
C21_DeepCheckLastAndOnce ==
    \A t \in Threads :
        /\ hist[t].deep_calls <= hist[t].gen_calls
        /\ hist[t].deep # NotCalled =>
               /\ hist[t].gen_calls >= 1
               /\ cand[t] # None
               /\ pc[t] # "validate" => hist[t].post_sql = cand[t].sql
               /\ Strip(hist[t].post_sql) # <<>>
               /\ Balanced(Strip(hist[t].post_sql))
               /\ PassedFastCheck(t)
        /\ (hist[t].post_dialect # "none" /\ hist[t].deep = NotCalled) => ~hist[t].post_ok

\* C21 witness: an invocation ended after two candidates, of which only the
\* second reached the deep check
C21_Witness ==
    \E t \in Threads :
        /\ pc[t] = "done" /\ hist[t].gen_calls = 2 /\ hist[t].deep_calls = 1
        /\ hist[t].deep # NotCalled

\* C22 (as claimed): the original-request context handed to the deep check during
\* the post validation of an invocation is the query of that same invocation: never
\* empty for a request that passed pre, never the query of an earlier invocation.
C22_DeepCheckGetsOwnQuery ==
    \A t \in Threads :
        hist[t].deep_query.given => hist[t].deep_query.q = req[t].query

\* C23: in sequential invocations on one instance with varying dialects, the prompt
\* rendered for an invocation and its post validation both use the dialect of its
\* request, never the dialect an earlier invocation left; a freshly constructed
\* generator has current_dialect = GENERIC.
C23_SequentialDialectIsOwn ==
    /\ \A t \in Threads :
        /\ hist[t].prompt_dialect # "none" => hist[t].prompt_dialect = req[t].sql_dialect
        /\ hist[t].post_dialect # "none" => hist[t].post_dialect = req[t].sql_dialect
        /\ pc[t] \in {"pre", "attempt", "validate"} => current_dialect = req[t].sql_dialect
    /\ ((\A t \in Threads : pc[t] = "idle") /\ ~current_query.set) =>
           current_dialect = "generic"

\* C23 witness: on an instance that served an earlier invocation, a candidate was
\* prompted for and accepted under MYSQL, the dialect of the request
C23_Witness ==
    /\ pc[1] = "forward"
    /\ current_query.set /\ current_query.q # req[1].query
    /\ req[1].sql_dialect = "mysql"
    /\ hist[1].prompt_dialect = "mysql" /\ hist[1].post_dialect = "mysql"
    /\ hist[1].post_ok

\* C25: validation has no side effects: post (and the dialect validation it calls)
\* leaves the candidate result, current_dialect and the stored current query
\* unchanged, whatever the outcome of the validation.
C25_ValidationHasNoSideEffects ==
    [][\A t \in Threads :
          (pc[t] = "validate" /\ pc'[t] # "validate") =>
              /\ cand'[t] = cand[t]
              /\ current_dialect' = current_dialect
              /\ current_query' = current_query
              /\ contract_result' \in {None, cand[t]}]_vars

\* C25 witness: post rejected a candidate with leading and trailing whitespace, and
\* the candidate still carries it
C25_Witness ==
    \E t \in Threads :
        /\ pc[t] = "attempt" /\ tries[t] = 1
        /\ hist[t].post_sql = cand[t].sql /\ ~hist[t].post_ok
        /\ Strip(cand[t].sql) # cand[t].sql
        /\ Strip(cand[t].sql) # <<>>

-----------------------------------------------------------------------------
(* Properties of the deep check's answer and of the fast dialect check
   (specification SpecValidate) *)

\* C24 (as claimed): a textual response of the deep check makes the candidate valid
\* only when the response is YES, ignoring letter case and surrounding whitespace;
\* every other textual response makes the validation return false.
C24_StrictYesAnswer ==
    (v_op # "none" /\ v_deep.kind = "text") =>
        (v_result <=> Upper(Strip(v_deep.text)) = PatYes)

\* C24 (amended): a textual response makes the candidate valid exactly when, after
\* trimming and upper-casing, it begins with YES; whatever follows the YES is
\* ignored, and every other textual response makes the validation return false.
C24_AnswerBeginningWithYes ==
    (v_op # "none" /\ v_deep.kind = "text") =>
        (v_result <=> StartsWith(Upper(Strip(v_deep.text)), PatYes))

\* C24 witness: post accepted a candidate on the answer `Yes.`
C24_Witness ==
    /\ v_op = "post"
    /\ v_deep = TextOutcome(<<"Y", "e", "s", ".">>)
    /\ v_result = TRUE

-----------------------------------------------------------------------------
(* Properties of the re-qualification in the /query-db handler (specification
   SpecApi) *)

\* the end of the quoted identifier that begins s: the place of its closing quote
ClosingQuote(s) ==
    IF \E j \in 2..Len(s) : s[j] = DQuote
    THEN CHOOSE j \in 2..Len(s) : s[j] = DQuote /\ \A k \in 2..(j - 1) : s[k] # DQuote
    ELSE Len(s)

\* s with every reference to table t wrapped in one pair of double quotes and all
\* other text as it is.  A reference is the name standing outside quotes and not
\* inside a longer identifier; a quoted identifier, the name already between quotes
\* included, stays as it is.  prev holds the character before s.
RECURSIVE Requalified(_, _, _)
Requalified(s, t, prev) ==
    IF s = <<>> THEN <<>>
    ELSE IF Head(s) = DQuote
    THEN SubSeq(s, 1, ClosingQuote(s)) \o Requalified(Drop(s, ClosingQuote(s)), t, <<DQuote>>)
    ELSE IF /\ StartsWith(s, t)
            /\ prev = <<>> \/ prev[1] \notin IdentChars
            /\ Len(s) = Len(t) \/ s[Len(t) + 1] \notin IdentChars
    THEN <<DQuote>> \o t \o <<DQuote>> \o Requalified(Drop(s, Len(t)), t, <<t[Len(t)]>>)
    ELSE <<Head(s)>> \o Requalified(Tail(s), t, <<Head(s)>>)

\* C27 (as claimed): in the table-scoped flow the generated SQL is re-qualified
\* before execution: in the SQL that is executed every reference to the known table
\* is the table name in exactly one pair of double quotes, and no other text is
\* changed, also when the generated SQL already quotes the name or holds the name
\* inside a longer identifier.
C27_TableRequalified ==
    a_obs.executions = 1 =>
        a_obs.safe_sql = Requalified(ret[1].sql, a_req.table_name, <<>>)

-----------------------------------------------------------------------------
(* Properties of a handle driven by connect() and disconnect() (specification
   SpecConnect) *)

\* a method of the handle is called while it holds no connection
UnconnectedCall ==
    /\ connection = NoConnection
    /\ \/ GetTableNames
       \/ GetTableSchema(ConnNames)
       \/ GetColumnsInfo(ConnNames)
       \/ ListTablesWithInfo
       \/ ExecuteQuery(ConnStatements)

\* C28: every SQLInterface operation called before connect or after disconnect
\* raises the error 'Database not connected' (the only RuntimeError of the handle),
\* performs no store access and leaves the handle's state unchanged.
C28_UnconnectedCallRaises ==
    [][UnconnectedCall =>
          /\ d_last'.outcome = Raises("RuntimeError")
          /\ d_exc' = "RuntimeError"
          /\ d_last'.queries = <<>>
          /\ store' = store
          /\ connection' = NoConnection
          /\ open_conns' = open_conns
          /\ conn_count' = conn_count]_vars

\* C28 witness: after a connect and a disconnect, execute_query with a DROP TABLE
\* raised 'Database not connected' and the table is still there
C28_Witness ==
    /\ conn_count >= 1 /\ connection = NoConnection
    /\ d_exc = "RuntimeError"
    /\ d_last.op = "execute_query"
    /\ d_last.arg = DropPrefix \o <<"t">>
    /\ d_last.outcome = Raises("RuntimeError")
    /\ HasTable(store, <<"t">>)

\* C29 (as claimed): after any sequence of connect and disconnect calls at most one
\* connection opened by the handle is still open, and it is the one the handle
\* references: connect on a connected handle leaves no unreferenced open
\* connection, and disconnect on a disconnected handle changes nothing.
C29_OnlyReferencedConnectionOpen ==
    open_conns = IF connection = NoConnection THEN {} ELSE {connection}

-----------------------------------------------------------------------------
(* The schema text and the column text of the catalog (specification SpecDatabase) *)

\* C30: for every existing table t, get_table_schema(t) is `Table: <t>`, newline,
\* three spaces, `Columns: ` followed by get_columns_info(t); hence the schema text
\* generate_sql_for_table builds from t and get_columns_info(t) is identical to
\* get_table_schema(t).
C30_SchemaIsHeaderPlusColumns ==
    (d_last.op = "get_table_schema" /\ d_last.outcome.kind = "return") =>
        LET c == GetColumnsInfoResult(1, d_last.store, d_last.arg)
        IN  /\ c.kind = "return"
            /\ d_last.outcome.value =
                   <<"T", "a", "b", "l", "e", ":", " ">> \o d_last.arg
                       \o <<"\n", " ", " ", " ">>
                       \o <<"C", "o", "l", "u", "m", "n", "s", ":", " ">> \o c.value
            /\ d_last.outcome.value = TableSchemaText(d_last.arg, c.value)

\* C30 witness: the schema text of the existing table `a b`, which has a primary key
\* column, was returned inside a scope
C30_Witness ==
    /\ d_last.op = "get_table_schema"
    /\ d_last.arg = <<"a", " ", "b">>
    /\ d_last.outcome.kind = "return"
    /\ HasTable(d_last.store, <<"a", " ", "b">>)
    /\ GetColumnsInfoResult(1, d_last.store, d_last.arg).value # <<>>

====
